---- MODULE Spec2Model ----
(***************************************************************************)
(* A model of tools/ai_toolkit.py: the canonicalizers, the signer and the  *)
(* verifier, the spec-hash gate and the dependency policy checker.         *)
(*                                                                         *)
(* Text is a sequence of characters.  A character is a one-character       *)
(* string, except for three kinds of symbol that stand for longer runs:    *)
(*   "nbsp"  U+00A0, a white-space character that NFKC maps to a space;    *)
(*   "k"     the YAML line  title: x          (a key other than spec_hash) *)
(*   "P"     the YAML line  spec_hash: pending                             *)
(*   "H"     the YAML line  spec_hash: <hex SHA-256 of the bytes "a\n">    *)
(* The last three hold no white space at either end and no dash at the     *)
(* start, so the regular expressions and the strip calls of the code treat *)
(* them as they treat the letter "a".                                      *)
(***************************************************************************)
EXTENDS Integers, Sequences, FiniteSets, TLC

\* ------------------------------------------------------------------------
\* Bounds of the model
\* ------------------------------------------------------------------------
\* Lines of a generated front-matter block.
MaxFrontLines == 2

\* Pieces of a generated document body (canonicalization).
MaxBodyPieces == 3

\* Pieces of a generated document body (verify-spec).
MaxVerifyPieces == 3

\* Keys of a generated top-level mapping.
MaxKeys == 2

\* The last second the clock reaches.
MaxClock == 1

\* The most import statements of a source file.
MaxImports == 2

\* The most package tables of a lock file.
MaxLockPackages == 2

\* The most nodes of a scanned file.
MaxNodes == 2

\* The most lines of a policy document.
MaxPolicyLines == 2

\* The most entries of a list of model_rules.
MaxRules == 2

\* The most spaces a line of a spec document is indented by.
MaxIndent == 2

VARIABLES
    specExists,   \* whether the spec file exists
    specText,     \* the text of the spec file
    docFront,     \* the lines the file's front-matter block was written with
    docBody,      \* the text that follows the front-matter block
    canonOut,     \* canonicalize_spec of the file, once computed
    canonTwice,   \* canonicalize_spec of the decoded canonOut, once computed
    prevFront,    \* docFront before the last front-matter edit
    prevCanon,    \* canonOut before the last front-matter edit
    declared,     \* what cmd_verify_spec read as front.get("spec_hash")
    verifyOut,    \* how cmd_verify_spec ended
    jsonData,     \* the mapping handed to canonicalize_json, in insertion order
    jsonFirst,    \* canonicalize_json of the mapping as first given
    jsonOut,      \* canonicalize_json of jsonData, once computed
    clock,        \* time.time(), in whole seconds
    request,      \* the arguments make-artifact is called with
    files,        \* the artifact directory: the tokens of each file, if any
    written,      \* each file as make-artifact last wrote it
    sigCmd,       \* the last make-artifact or verify-sig run: its
                  \* environment and how it ended
    depPolicy,    \* the policy as loaded
    depSource,    \* the file check-deps is run on
    depLocal,     \* the names that exist under src/
    depLock,      \* poetry.lock
    depFiles,     \* the reports in the artifact directory
    depCmd,       \* how the last check-deps run ended
    scanPolicy,   \* security_rules of the policy as loaded
    scanSource,   \* the file scan-tests is run on
    incFiles,     \* the reports in the incidents directory
    scanCmd,      \* how the last scan-tests run ended
    awOld,        \* the content of the path before any atomic_write
    awFs,         \* the folder of the path: the content of each file in it
    awPc,         \* where each atomic_write invocation stands
    awOrder,      \* the invocations in the order of their os.replace
    awRead,       \* what the last reader of the path saw
    exitRun,      \* the last run of main: its command, how it ended, its status
    exitSeen,     \* per failure category, the exit statuses the caller has seen
    polDoc,       \* tools/policy.yaml: absent, or its lines
    polLoad,      \* the import of the toolkit: POLICY, POLICY_VERSION, how it ended
    vpPolicy,     \* model_rules of the adapter's policy, if it has any
    vpPhase,      \* the phase verify_policy is asked about
    vpModel,      \* the model name it is asked about
    vpOut,        \* what verify_policy returned
    cmSdks,       \* the providers whose SDK the adapter could import
    cmKeys,       \* the providers whose API key is set in the environment
    cmModel,      \* the model name call_model is given
    cmOut         \* how call_model ended

specVars == <<specExists, specText, docFront, docBody, canonOut, canonTwice,
              prevFront, prevCanon, declared, verifyOut>>

jsonVars == <<jsonData, jsonFirst, jsonOut>>

sigVars == <<clock, request, files, written, sigCmd>>

depVars == <<depPolicy, depSource, depLocal, depLock, depFiles, depCmd>>

scanVars == <<scanPolicy, scanSource, incFiles, scanCmd>>

writeVars == <<awOld, awFs, awPc, awOrder, awRead>>

exitVars == <<exitRun, exitSeen>>

policyVars == <<polDoc, polLoad>>

adapterPolicyVars == <<vpPolicy, vpPhase, vpModel, vpOut>>

callVars == <<cmSdks, cmKeys, cmModel, cmOut>>

vars == <<specVars, jsonVars, sigVars, depVars, scanVars, writeVars,
          exitVars, policyVars, adapterPolicyVars, callVars>>

\* ------------------------------------------------------------------------
\* Generic helpers
\* ------------------------------------------------------------------------
SetMax(S) == CHOOSE x \in S : \A y \in S : y <= x

SetMin(S) == CHOOSE x \in S : \A y \in S : x <= y

RECURSIVE Concat(_)
Concat(ss) == IF ss = << >> THEN << >> ELSE Head(ss) \o Concat(Tail(ss))

\* An optional value: None, or Some(x).
None == << >>

Some(x) == <<x>>

\* ------------------------------------------------------------------------
\* The state of each part before any of its commands has run
\* ------------------------------------------------------------------------
SpecIdle ==
    /\ canonOut = None /\ canonTwice = None
    /\ prevFront = None /\ prevCanon = None
    /\ declared = None /\ verifyOut = "none"

NoSpecFile ==
    /\ specExists = FALSE /\ specText = << >>
    /\ docFront = None /\ docBody = << >>
    /\ SpecIdle

JsonIdle ==
    /\ jsonData = [t |-> "obj", n |-> 0, s |-> << >>, e |-> << >>]
    /\ jsonFirst = None /\ jsonOut = None

NoRequest ==
    [phase |-> "", owner |-> << >>, spec_hash |-> None, trace_id |-> None,
     metadata |-> None, commit |-> ""]

NoKey == [set |-> FALSE, begins |-> FALSE, exists |-> FALSE, bytes |-> ""]

NoCmd ==
    [cmd |-> "none", ciVar |-> "unset", crypto |-> FALSE, key |-> NoKey,
     keyId |-> "unset", pub |-> NoKey, name |-> "", out |-> "none"]

SigIdle ==
    /\ clock = 0
    /\ request = NoRequest
    /\ files = [n \in {} |-> None]
    /\ written = [n \in {} |-> None]
    /\ sigCmd = NoCmd

DepsIdle ==
    /\ depPolicy = [rules |-> FALSE, allowed |-> {}]
    /\ depSource = [parses |-> TRUE, stmts |-> {}]
    /\ depLocal = {}
    /\ depLock = [exists |-> FALSE, toml |-> FALSE, parses |-> FALSE,
                  pkgs |-> << >>]
    /\ depFiles = [n \in {} |-> None]
    /\ depCmd = [out |-> "none", message |-> ""]

ScanIdle ==
    /\ scanPolicy = [banned |-> {}, restricted |-> {}, calls |-> {}]
    /\ scanSource = [parses |-> TRUE, nodes |-> << >>]
    /\ incFiles = [n \in {} |-> None]
    /\ scanCmd = [out |-> "none", message |-> "", warned |-> FALSE]

WriteIdle ==
    /\ awOld = None
    /\ awFs = [n \in {} |-> None]
    /\ awPc = [w \in {} |-> "idle"]
    /\ awOrder = << >>
    /\ awRead = [seen |-> FALSE, content |-> None]

ExitIdle ==
    /\ exitRun = [cmd |-> "none", how |-> "none", category |-> "none",
                  status |-> 0]
    /\ exitSeen = [c \in {} |-> {}]

PolicyIdle ==
    /\ polDoc = None
    /\ polLoad = [out |-> "none", policy |-> [t |-> "none", e |-> << >>],
                  version |-> ""]

AdapterPolicyIdle ==
    /\ vpPolicy = None
    /\ vpPhase = ""
    /\ vpModel = << >>
    /\ vpOut = "none"

CallIdle ==
    /\ cmSdks = {}
    /\ cmKeys = {}
    /\ cmModel = << >>
    /\ cmOut = [how |-> "none", provider |-> "", message |-> ""]

\* All sequences over S of length at most n.
SeqsUpTo(S, n) == UNION {[1..k -> S] : k \in 0..n}

\* ------------------------------------------------------------------------
\* Characters
\* ------------------------------------------------------------------------
LF == "\n"

CR == "\r"

NBSP == "nbsp"

\* str.isspace() / the regular expression class \s, on the model's alphabet.
IsSpace(c) == c \in {" ", LF, CR, NBSP}

\* unicodedata.normalize("NFKC", .) on one character of the alphabet.
NFKCChar(c) == IF c = NBSP THEN " " ELSE c

NFKC(t) == [i \in 1..Len(t) |-> NFKCChar(t[i])]

\* str.encode('utf-8'): NBSP takes two bytes, every other character one.
Utf8Char(c) == IF c = NBSP THEN <<"xC2", "xA0">> ELSE <<c>>

Utf8Encode(t) == Concat([i \in 1..Len(t) |-> Utf8Char(t[i])])

RECURSIVE Utf8Decode(_)
Utf8Decode(b) ==
    IF b = << >> THEN << >>
    ELSE IF Len(b) >= 2 /\ b[1] = "xC2" /\ b[2] = "xA0"
         THEN <<NBSP>> \o Utf8Decode(SubSeq(b, 3, Len(b)))
         ELSE <<b[1]>> \o Utf8Decode(Tail(b))

\* ------------------------------------------------------------------------
\* The front-matter regular expression  ^---\s*\n(.*?)\n---\s*\n  (DOTALL)
\* ------------------------------------------------------------------------
\* The last index of the white-space run that starts at i (i-1 when empty).
WsRunEnd(t, i) ==
    CHOOSE j \in (i - 1)..Len(t) :
        /\ \A k \in i..j : IsSpace(t[k])
        /\ (j = Len(t) \/ ~IsSpace(t[j + 1]))

\* Where a match of \s*\n that starts at i can end: the line feeds of the run.
DelimEnds(t, i) == {p \in i..WsRunEnd(t, i) : t[p] = LF}

\* Where \n---\s*\n can start.
Closers(t) ==
    {q \in 1..(Len(t) - 4) :
        /\ t[q] = LF /\ t[q + 1] = "-" /\ t[q + 2] = "-" /\ t[q + 3] = "-"
        /\ DelimEnds(t, q + 4) # {}}

StartsWithDashes(t) == Len(t) >= 3 /\ t[1] = "-" /\ t[2] = "-" /\ t[3] = "-"

\* The ends of the opening delimiter from which the rest can still match.
OpenEnds(t) ==
    IF StartsWithDashes(t)
    THEN {p \in DelimEnds(t, 4) : \E q \in Closers(t) : q > p}
    ELSE {}

\* re.match of the front-matter pattern: the opening \s* is greedy, (.*?) is
\* lazy and the closing \s* is greedy.  g1 is group(1), rest what follows the
\* match (group(2) of the pattern of canonicalize_spec, which ends in (.*)$).
FrontMatch(t) ==
    IF OpenEnds(t) = {}
    THEN [matched |-> FALSE, g1 |-> << >>, rest |-> << >>]
    ELSE LET p1 == SetMax(OpenEnds(t))
             q  == SetMin({c \in Closers(t) : c > p1})
             p2 == SetMax(DelimEnds(t, q + 4))
         IN  [matched |-> TRUE,
              g1 |-> SubSeq(t, p1 + 1, q - 1),
              rest |-> SubSeq(t, p2 + 1, Len(t))]

\* ------------------------------------------------------------------------
\* canonicalize_spec
\* ------------------------------------------------------------------------
\* re.sub(r'\r\n?', '\n', body)
RECURSIVE NormalizeNewlines(_)
NormalizeNewlines(t) ==
    IF t = << >> THEN << >>
    ELSE IF t[1] = CR
         THEN IF Len(t) >= 2 /\ t[2] = LF
              THEN <<LF>> \o NormalizeNewlines(SubSeq(t, 3, Len(t)))
              ELSE <<LF>> \o NormalizeNewlines(Tail(t))
         ELSE <<t[1]>> \o NormalizeNewlines(Tail(t))

\* str.split('\n'): the pieces between line feeds, empty ones kept.
RECURSIVE SplitLines(_)
SplitLines(t) ==
    IF \A i \in 1..Len(t) : t[i] # LF
    THEN <<t>>
    ELSE LET p == SetMin({i \in 1..Len(t) : t[i] = LF})
         IN  <<SubSeq(t, 1, p - 1)>> \o SplitLines(SubSeq(t, p + 1, Len(t)))

\* str.rstrip()
RStrip(t) ==
    LET keep == {i \in 1..Len(t) : ~IsSpace(t[i])}
    IN  IF keep = {} THEN << >> ELSE SubSeq(t, 1, SetMax(keep))

\* str.strip()
Strip(t) ==
    LET keep == {i \in 1..Len(t) : ~IsSpace(t[i])}
    IN  IF keep = {} THEN << >> ELSE SubSeq(t, SetMin(keep), SetMax(keep))

\* '\n'.join(lines)
RECURSIVE JoinLines(_)
JoinLines(ls) ==
    IF ls = << >> THEN << >>
    ELSE IF Len(ls) = 1 THEN ls[1]
         ELSE ls[1] \o <<LF>> \o JoinLines(Tail(ls))

\* The body that canonicalize_spec keeps: group(2), or the whole text.
SpecBody(text) ==
    LET m == FrontMatch(text) IN IF m.matched THEN m.rest ELSE text

NormalizeBody(body) ==
    LET b1    == NFKC(body)
        b2    == NormalizeNewlines(b1)
        lines == SplitLines(b2)
    IN  Strip(JoinLines([i \in 1..Len(lines) |-> RStrip(lines[i])])) \o <<LF>>

canonicalize_spec(text) == Utf8Encode(NormalizeBody(SpecBody(text)))

\* hashlib.sha256(b).hexdigest(), as a symbolic value: equal digests come
\* from equal bytes.
Sha256Hex(b) == [kind |-> "hex", of |-> b]

\* ------------------------------------------------------------------------
\* Spec documents
\* ------------------------------------------------------------------------
\* The lines a front-matter block is written with: a blank line, another
\* key, spec_hash: pending, spec_hash: <digest of "a\n">.
FrontLines == {<< >>, <<"k">>, <<"P">>, <<"H">>}

\* A block opened and closed by a --- line, holding the given lines.
FrontBlock(ls) ==
    <<"-", "-", "-", LF>>
        \o Concat([i \in 1..Len(ls) |-> ls[i] \o <<LF>>])
        \o <<"-", "-", "-", LF>>

FrontChoices == {None} \cup {Some(ls) : ls \in SeqsUpTo(FrontLines, MaxFrontLines)}

BodyPieces ==
    {<<"-", "-", "-", LF>>, <<"a">>, <<LF>>, <<" ">>, <<CR>>, <<NBSP>>}

VerifyPieces == {<<"-", "-", "-", LF>>, <<"a">>, <<LF>>, <<" ">>}

TextsOf(pieces, n) == {Concat(ps) : ps \in SeqsUpTo(pieces, n)}

DocText(front, body) ==
    IF front = None THEN body ELSE FrontBlock(front[1]) \o body

\* ------------------------------------------------------------------------
\* The hash command and the re-application of canonicalize_spec
\* ------------------------------------------------------------------------
\* main, cmd == "hash": canonicalize the file's text (and print its digest).
CmdHash ==
    /\ specExists /\ canonOut = None /\ verifyOut = "none"
    /\ canonOut' = Some(canonicalize_spec(specText))
    /\ UNCHANGED <<specExists, specText, docFront, docBody, canonTwice,
                   prevFront, prevCanon, declared, verifyOut, jsonVars, sigVars,
                   depVars,
                   scanVars,
                   writeVars,
                   exitVars,
                   policyVars,
                   adapterPolicyVars,
                   callVars>>

\* canonicalize_spec applied to the decoded output of canonicalize_spec.
Recanonicalize ==
    /\ canonOut # None /\ canonTwice = None /\ prevCanon = None
    /\ canonTwice' = Some(canonicalize_spec(Utf8Decode(canonOut[1])))
    /\ UNCHANGED <<specExists, specText, docFront, docBody, canonOut,
                   prevFront, prevCanon, declared, verifyOut, jsonVars, sigVars,
                   depVars,
                   scanVars,
                   writeVars,
                   exitVars,
                   policyVars,
                   adapterPolicyVars,
                   callVars>>

\* The author rewrites the front-matter block (as when the digest is
\* declared in it) and leaves the body alone.
EditFrontMatter ==
    /\ docFront # None /\ canonOut # None
    /\ canonTwice = None /\ prevCanon = None
    /\ \E ls \in SeqsUpTo(FrontLines, MaxFrontLines) :
          /\ ls # docFront[1]
          /\ docFront' = Some(ls)
          /\ specText' = DocText(Some(ls), docBody)
    /\ prevFront' = docFront
    /\ prevCanon' = canonOut
    /\ canonOut' = None
    /\ UNCHANGED <<specExists, docBody, canonTwice, declared, verifyOut,
                   jsonVars, sigVars,
                   depVars,
                   scanVars,
                   writeVars,
                   exitVars,
                   policyVars,
                   adapterPolicyVars,
                   callVars>>

InitCanon ==
    /\ specExists = TRUE
    /\ docFront \in FrontChoices
    /\ docBody \in TextsOf(BodyPieces, MaxBodyPieces)
    /\ specText = DocText(docFront, docBody)
    /\ SpecIdle
    /\ JsonIdle
    /\ SigIdle
    /\ DepsIdle
    /\ ScanIdle
    /\ WriteIdle
    /\ ExitIdle
    /\ PolicyIdle
    /\ AdapterPolicyIdle
    /\ CallIdle

NextCanon == CmdHash \/ Recanonicalize \/ EditFrontMatter

SpecCanon == InitCanon /\ [][NextCanon]_vars

\* ------------------------------------------------------------------------
\* cmd_verify_spec
\* ------------------------------------------------------------------------
\* The values front.get("spec_hash") can take.
NoneVal == [kind |-> "none", of |-> << >>]

EmptyStr == [kind |-> "empty", of |-> << >>]

PendingStr == [kind |-> "pending", of |-> << >>]

\* The digest that the line "H" declares.
DigestOfA == Sha256Hex(<<"a", LF>>)

\* Python truthiness of a declared value.
Falsy(v) == v \in {NoneVal, EmptyStr}

\* What yaml.safe_load makes of group(1).  Lines that are blank or hold one
\* key at column 0 load as a mapping in which the last spec_hash wins (an
\* empty document loads as None, which "or {}" turns into the empty
\* mapping).  Any other content may fail to parse, load as something that
\* is not a mapping, or load as a mapping declaring any value.
IsBlankLine(l) == \A i \in 1..Len(l) : l[i] \in {" ", CR}

KeyOfLine(l) ==
    LET keep == {i \in 1..Len(l) : l[i] \notin {" ", CR}}
    IN  IF keep = {1} THEN l[1] ELSE "?"

IsKeyLine(l) == KeyOfLine(l) \in {"k", "P", "H"}

RECURSIVE LastDeclared(_)
LastDeclared(ls) ==
    IF ls = << >> THEN NoneVal
    ELSE LET k == KeyOfLine(ls[Len(ls)])
         IN  IF k = "P" THEN PendingStr
             ELSE IF k = "H" THEN DigestOfA
             ELSE LastDeclared(SubSeq(ls, 1, Len(ls) - 1))

YamlOutcomes(g1, computed) ==
    LET ls == SplitLines(g1)
    IN  IF \A i \in 1..Len(ls) : IsBlankLine(ls[i]) \/ IsKeyLine(ls[i])
        THEN {[kind |-> "map", declared |-> LastDeclared(ls)]}
        ELSE {[kind |-> "error", declared |-> NoneVal],
              [kind |-> "nonmap", declared |-> NoneVal]}
             \cup {[kind |-> "map", declared |-> d] :
                     d \in {NoneVal, EmptyStr, PendingStr, DigestOfA, computed}}

\* cmd_verify_spec after the front matter is loaded as y: how it ends and
\* the declared value it read, if it got that far.
VerifySpecSkipsUndeclared(text, y) ==
    LET computed == Sha256Hex(canonicalize_spec(text))
    IN  IF y.kind = "error"
        THEN [out |-> "PolicyViolation", declared |-> None]
        ELSE IF y.kind = "nonmap"
        THEN [out |-> "AttributeError", declared |-> None]
        ELSE IF ~Falsy(y.declared) /\ y.declared # computed
        THEN [out |-> "Mismatch", declared |-> Some(y.declared)]
        ELSE [out |-> "pass", declared |-> Some(y.declared)]

VerifySpecHashesRawText(text, y) ==
    LET computed == Sha256Hex(Utf8Encode(text))
    IN  IF y.kind = "error"
        THEN [out |-> "PolicyViolation", declared |-> None]
        ELSE IF y.kind = "nonmap"
        THEN [out |-> "AttributeError", declared |-> None]
        ELSE IF Falsy(y.declared) \/ y.declared = PendingStr
        THEN [out |-> "NotFinalized", declared |-> Some(y.declared)]
        ELSE IF y.declared # computed
        THEN [out |-> "Mismatch", declared |-> Some(y.declared)]
        ELSE [out |-> "pass", declared |-> Some(y.declared)]

VerifySpecResult(text, y) ==
    LET computed == Sha256Hex(canonicalize_spec(text))
    IN  IF y.kind = "error"
        THEN [out |-> "PolicyViolation", declared |-> None]
        ELSE IF y.kind = "nonmap"
        THEN [out |-> "AttributeError", declared |-> None]
        ELSE IF Falsy(y.declared) \/ y.declared = PendingStr
        THEN [out |-> "NotFinalized", declared |-> Some(y.declared)]
        ELSE IF y.declared # computed
        THEN [out |-> "Mismatch", declared |-> Some(y.declared)]
        ELSE [out |-> "pass", declared |-> Some(y.declared)]

\* The outcomes of loading the front matter of text: the empty mapping when
\* the pattern does not match.
FrontOutcomes(text) ==
    LET m == FrontMatch(text)
    IN  IF m.matched
        THEN YamlOutcomes(m.g1, Sha256Hex(canonicalize_spec(text)))
        ELSE {[kind |-> "map", declared |-> NoneVal]}

CmdVerifySpec ==
    /\ verifyOut = "none" /\ canonOut = None
    /\ IF ~specExists
       THEN verifyOut' = "NotFound" /\ declared' = None
       ELSE \E y \in FrontOutcomes(specText) :
              LET r == VerifySpecResult(specText, y)
              IN  verifyOut' = r.out /\ declared' = r.declared
    /\ UNCHANGED <<specExists, specText, docFront, docBody, canonOut,
                   canonTwice, prevFront, prevCanon, jsonVars, sigVars,
                   depVars,
                   scanVars,
                   writeVars,
                   exitVars,
                   policyVars,
                   adapterPolicyVars,
                   callVars>>

InitVerify ==
    /\ specExists \in BOOLEAN
    /\ docFront \in FrontChoices
    /\ docBody \in TextsOf(VerifyPieces, MaxVerifyPieces)
    /\ specText = DocText(docFront, docBody)
    /\ SpecIdle
    /\ JsonIdle
    /\ SigIdle
    /\ DepsIdle
    /\ ScanIdle
    /\ WriteIdle
    /\ ExitIdle
    /\ PolicyIdle
    /\ AdapterPolicyIdle
    /\ CallIdle

NextVerify == CmdVerifySpec

SpecVerify == InitVerify /\ [][NextVerify]_vars

\* ------------------------------------------------------------------------
\* canonicalize_json
\* ------------------------------------------------------------------------
\* JSON values: an integer, a string (a sequence of characters) or an object
\* (its entries <<key, value>> in insertion order, as a Python dict keeps
\* them; a key is a sequence of characters).
JInt(n) == [t |-> "int", n |-> n, s |-> << >>, e |-> << >>]

JStr(s) == [t |-> "str", n |-> 0, s |-> s, e |-> << >>]

JObj(e) == [t |-> "obj", n |-> 0, s |-> << >>, e |-> e]

\* The characters of keys, in code-point order.
CodePointOrder ==
    <<"0", "1", "2", "3", "4", "5", "6", "7", "8", "9", "A", "B", "C", "D",
      "E", "F", "G", "H", "I", "J", "K", "L", "M", "N", "O", "P", "Q", "R",
      "S", "T", "U", "V", "W", "X", "Y", "Z", "_", "a", "b", "c", "d", "e",
      "f", "g", "h", "i", "j", "k", "l", "m", "n", "o", "p", "q", "r", "s",
      "t", "u", "v", "w", "x", "y", "z">>

OrdTable ==
    [c \in {CodePointOrder[i] : i \in 1..Len(CodePointOrder)} |->
        CHOOSE i \in 1..Len(CodePointOrder) : CodePointOrder[i] = c]

\* The rank of ord(c) among the characters of keys.
Ord(c) == OrdTable[c]

\* Python's str order: by code point, a proper prefix first.
RECURSIVE KeyLess(_, _)
KeyLess(k1, k2) ==
    IF k1 = << >> THEN k2 # << >>
    ELSE IF k2 = << >> THEN FALSE
    ELSE IF k1[1] # k2[1] THEN Ord(k1[1]) < Ord(k2[1])
    ELSE KeyLess(Tail(k1), Tail(k2))

\* sorted(dict.items()) on entries with distinct keys.
RECURSIVE SortEntries(_)
SortEntries(es) ==
    IF es = << >> THEN << >>
    ELSE LET i == CHOOSE i \in 1..Len(es) :
                    \A j \in 1..Len(es) : j = i \/ KeyLess(es[i][1], es[j][1])
         IN  <<es[i]>> \o
             SortEntries(SubSeq(es, 1, i - 1) \o SubSeq(es, i + 1, Len(es)))

RECURSIVE StrOf(_)
StrOf(cs) == IF cs = << >> THEN "" ELSE cs[1] \o StrOf(Tail(cs))

\* The JSON string escape of one character (ensure_ascii is on).
JsonEscape(c) ==
    CASE c = "\"" -> <<"\\", "\"">>
      [] c = "\\" -> <<"\\", "\\">>
      [] c = LF   -> <<"\\", "n">>
      [] c = "é"  -> <<"\\", "u", "0", "0", "e", "9">>
      [] OTHER    -> <<c>>

\* The characters between the quotes of json.dumps(s).
JsonEscapeAll(cs) == Concat([i \in 1..Len(cs) |-> JsonEscape(cs[i])])

JsonQuote(cs) == "\"" \o StrOf(JsonEscapeAll(cs)) \o "\""

\* json.dumps(v, separators=(',', ':'), sort_keys=sortKeys)
RECURSIVE JsonDumps(_, _)
RECURSIVE JsonDumpsEntries(_, _)
JsonDumpsEntries(es, sortKeys) ==
    IF es = << >> THEN ""
    ELSE JsonQuote(es[1][1]) \o ":" \o JsonDumps(es[1][2], sortKeys)
         \o (IF Len(es) = 1 THEN ""
             ELSE "," \o JsonDumpsEntries(Tail(es), sortKeys))

JsonDumps(v, sortKeys) ==
    IF v.t = "int" THEN ToString(v.n)
    ELSE IF v.t = "str" THEN JsonQuote(v.s)
    ELSE "{" \o JsonDumpsEntries(IF sortKeys THEN SortEntries(v.e) ELSE v.e,
                                 sortKeys) \o "}"

\* The output of json.dumps is ASCII, which UTF-8 encodes byte for byte.
canonicalize_json_unsorted(data) == JsonDumps(data, FALSE)

canonicalize_json(data) == JsonDumps(data, TRUE)

\* ------------------------------------------------------------------------
\* json.dumps(artifact, indent=2) and json.loads, on tokens
\* ------------------------------------------------------------------------
\* The text of a JSON file as its tokens (the white space that indent=2
\* adds lies between tokens and json.loads skips it).  A str token holds
\* the characters between its quotes, escapes included.
Tok(k) == [k |-> k, s |-> << >>, n |-> 0]

StrTok(cs) == [k |-> "str", s |-> cs, n |-> 0]

IntTok(n) == [k |-> "int", s |-> << >>, n |-> n]

RECURSIVE JsonTokens(_)
RECURSIVE JsonEntryTokens(_)
JsonEntryTokens(es) ==
    IF es = << >> THEN << >>
    ELSE <<StrTok(JsonEscapeAll(es[1][1])), Tok(":")>> \o JsonTokens(es[1][2])
         \o (IF Len(es) = 1 THEN << >>
             ELSE <<Tok(",")>> \o JsonEntryTokens(Tail(es)))

\* json.dumps(v, indent=2): the entries in insertion order.
JsonTokens(v) ==
    IF v.t = "int" THEN <<IntTok(v.n)>>
    ELSE IF v.t = "str" THEN <<StrTok(JsonEscapeAll(v.s))>>
    ELSE <<Tok("{")>> \o JsonEntryTokens(v.e) \o <<Tok("}")>>

\* What the decoder makes of the characters between two quotes: ok is FALSE
\* for an escape it does not know.
RECURSIVE JsonUnescape(_)
JsonUnescape(cs) ==
    IF cs = << >> THEN [ok |-> TRUE, s |-> << >>]
    ELSE IF cs[1] # "\\"
    THEN LET r == JsonUnescape(Tail(cs))
         IN  [ok |-> r.ok, s |-> <<cs[1]>> \o r.s]
    ELSE IF Len(cs) >= 2 /\ cs[2] \in {"\"", "\\", "n"}
    THEN LET r == JsonUnescape(SubSeq(cs, 3, Len(cs)))
         IN  [ok |-> r.ok,
              s |-> <<(IF cs[2] = "n" THEN LF ELSE cs[2])>> \o r.s]
    ELSE IF Len(cs) >= 6 /\ SubSeq(cs, 2, 6) = <<"u", "0", "0", "e", "9">>
    THEN LET r == JsonUnescape(SubSeq(cs, 7, Len(cs)))
         IN  [ok |-> r.ok, s |-> <<"é">> \o r.s]
    ELSE [ok |-> FALSE, s |-> << >>]

\* dict[key] = value: a key met again keeps its place and takes the value.
DictSet(es, key, val) ==
    IF \E i \in 1..Len(es) : es[i][1] = key
    THEN [i \in 1..Len(es) |-> IF es[i][1] = key THEN <<key, val>> ELSE es[i]]
    ELSE Append(es, <<key, val>>)

ParseFail == [ok |-> FALSE, v |-> JInt(0), next |-> 0]

\* The value that starts at token i, and the index after it.
RECURSIVE ParseValue(_, _)
RECURSIVE ParseMembers(_, _, _)
ParseMembers(toks, i, acc) ==
    IF i + 2 > Len(toks) \/ toks[i].k # "str" \/ toks[i + 1].k # ":"
    THEN ParseFail
    ELSE LET key == JsonUnescape(toks[i].s)
             val == ParseValue(toks, i + 2)
         IN  IF ~key.ok \/ ~val.ok \/ val.next > Len(toks) THEN ParseFail
             ELSE IF toks[val.next].k = "}"
             THEN [ok |-> TRUE, v |-> JObj(DictSet(acc, key.s, val.v)),
                   next |-> val.next + 1]
             ELSE IF toks[val.next].k = ","
             THEN ParseMembers(toks, val.next + 1, DictSet(acc, key.s, val.v))
             ELSE ParseFail

ParseValue(toks, i) ==
    IF i > Len(toks) THEN ParseFail
    ELSE IF toks[i].k = "int"
    THEN [ok |-> TRUE, v |-> JInt(toks[i].n), next |-> i + 1]
    ELSE IF toks[i].k = "str"
    THEN LET r == JsonUnescape(toks[i].s)
         IN  IF r.ok THEN [ok |-> TRUE, v |-> JStr(r.s), next |-> i + 1]
             ELSE ParseFail
    ELSE IF toks[i].k = "{"
    THEN IF i + 1 <= Len(toks) /\ toks[i + 1].k = "}"
         THEN [ok |-> TRUE, v |-> JObj(<< >>), next |-> i + 2]
         ELSE ParseMembers(toks, i + 1, << >>)
    ELSE ParseFail

\* json.loads(text): ok is FALSE where it raises.
JsonLoads(toks) ==
    LET r == ParseValue(toks, 1)
    IN  IF r.ok /\ r.next = Len(toks) + 1
        THEN [ok |-> TRUE, v |-> r.v]
        ELSE [ok |-> FALSE, v |-> JInt(0)]

\* The mappings canonicalize_json is applied to.
OrderedObjects(keys, values, n) ==
    {JObj(es) : es \in
        {f \in SeqsUpTo(keys \X values, n) :
            \A i, j \in 1..Len(f) : i # j => f[i][1] # f[j][1]}}

NestedObjects ==
    OrderedObjects({<<"d">>, <<"e">>}, {JInt(3), JInt(4)}, Cardinality({"d", "e"}))

TopKeys == {<<"a">>, <<"b">>, <<"B">>, <<"a", "b">>}

TopValues == {JInt(1), JInt(2)} \cup NestedObjects

\* {"b":2,"a":1,"c":{"e":3,"d":4}}
ExampleData ==
    JObj(<< <<(<<"b">>), JInt(2)>>, <<(<<"a">>), JInt(1)>>,
            <<(<<"c">>), JObj(<< <<(<<"e">>), JInt(3)>>, <<(<<"d">>), JInt(4)>> >>)>> >>)

JsonInputs == OrderedObjects(TopKeys, TopValues, MaxKeys) \cup {ExampleData}

Swap(es, i) == [es EXCEPT ![i] = es[i + 1], ![i + 1] = es[i]]

\* canonicalize_json(data)
CanonicalizeJson ==
    /\ jsonOut = None
    /\ jsonOut' = Some(canonicalize_json(jsonData))
    /\ jsonFirst' = IF jsonFirst = None
                    THEN Some(canonicalize_json(jsonData)) ELSE jsonFirst
    /\ UNCHANGED <<jsonData, specVars, sigVars, depVars,
                   scanVars,
                   writeVars,
                   exitVars,
                   policyVars,
                   adapterPolicyVars,
                   callVars>>

\* The same content is built in another insertion order: two neighbouring
\* entries change places, at the top level or inside a nested object.
ReorderKeys ==
    /\ jsonFirst # None
    /\ \/ \E i \in 1..(Len(jsonData.e) - 1) :
             jsonData' = JObj(Swap(jsonData.e, i))
       \/ \E i \in 1..Len(jsonData.e) :
             /\ jsonData.e[i][2].t = "obj"
             /\ \E j \in 1..(Len(jsonData.e[i][2].e) - 1) :
                   jsonData' =
                     JObj([jsonData.e EXCEPT
                            ![i] = <<jsonData.e[i][1],
                                     JObj(Swap(jsonData.e[i][2].e, j))>>])
    /\ jsonOut' = None
    /\ UNCHANGED <<jsonFirst, specVars, sigVars, depVars,
                   scanVars,
                   writeVars,
                   exitVars,
                   policyVars,
                   adapterPolicyVars,
                   callVars>>

InitJson ==
    /\ jsonData \in JsonInputs
    /\ jsonFirst = None /\ jsonOut = None
    /\ NoSpecFile
    /\ SigIdle
    /\ DepsIdle
    /\ ScanIdle
    /\ WriteIdle
    /\ ExitIdle
    /\ PolicyIdle
    /\ AdapterPolicyIdle
    /\ CallIdle

NextJson == CanonicalizeJson \/ ReorderKeys

SpecJson == InitJson /\ [][NextJson]_vars

\* ------------------------------------------------------------------------
\* The environment of a run
\* ------------------------------------------------------------------------
\* The values of the CI variable.
CiValues == {"unset", "true", "TRUE"}

Lower(v) == IF v = "TRUE" THEN "true" ELSE v

\* os.environ.get('CI', 'false').lower() == 'true'
IsCI(ciVar) == Lower(IF ciVar = "unset" THEN "false" ELSE ciVar) = "true"

\* AI_ARTIFACT_SIGNING_KEY: whether it is set to a non-empty value, whether
\* the value starts with -----BEGIN, whether it names an existing file, and
\* the key bytes it leads to (the value itself when inline, the file's
\* content when a path): empty, not a PEM key, or the private key of a pair.
InlineKey(b) ==
    [set |-> TRUE, begins |-> TRUE, exists |-> FALSE, bytes |-> b]

KeyFile(b) ==
    [set |-> TRUE, begins |-> FALSE, exists |-> TRUE, bytes |-> b]

MissingPath ==
    [set |-> TRUE, begins |-> FALSE, exists |-> FALSE, bytes |-> ""]

SigningKeys ==
    {NoKey, MissingPath, InlineKey("priv-K1"), InlineKey("garbage"),
     KeyFile(""), KeyFile("garbage"), KeyFile("priv-K1")}

\* The signing keys of the runs whose artifacts are verified afterwards.
RoundTripKeys == {NoKey, InlineKey("priv-K1"), KeyFile("priv-K2")}

\* --pubkey or AI_ARTIFACT_VERIFY_KEY: whether a non-empty path is given,
\* whether it exists, and the file's content.
PublicKeys ==
    {NoKey, MissingPath, KeyFile("garbage"), KeyFile("pub-K1"),
     KeyFile("pub-K2")}

\* The values of the signing key id variable, 'dev-local' when unset.
KeyIdValues == {"unset", "ci-key"}

\* serialization.load_pem_private_key / load_pem_public_key: the key pair
\* of the bytes, "" where loading raises.
PairOfPrivate(b) ==
    IF b = "priv-K1" THEN "K1" ELSE IF b = "priv-K2" THEN "K2" ELSE ""

PairOfPublic(b) ==
    IF b = "pub-K1" THEN "K1" ELSE IF b = "pub-K2" THEN "K2" ELSE ""

\* ------------------------------------------------------------------------
\* sign_payload
\* ------------------------------------------------------------------------
\* hashlib.sha256(payload).hexdigest(), as one symbol of a string.
Sha256HexStr(payload) == "sha256(" \o payload \o ")"

\* private_key.sign(payload, PSS, SHA256): the signature bytes, which verify
\* under the public key of the same pair over the same payload only.
RsaSign(pair, payload) == <<"RS256", pair, payload>>

RsaVerify(pair, signature, payload) == signature = <<"RS256", pair, payload>>

\* base64.b64encode(...).decode('utf-8') and base64.b64decode: text that is
\* no base64 of a signature decodes to bytes that verify under no key.
B64Encode(bytes) == <<"b64">> \o bytes

B64Decode(cs) ==
    IF cs # << >> /\ cs[1] = "b64" THEN Tail(cs) ELSE <<"garbage">>

FileExists(key) == key.set /\ key.exists

HasValidKeySource(key) == key.set /\ (FileExists(key) \/ key.begins)

\* key_bytes: "" stands for None and for empty bytes, both falsy.
KeyBytes(key) ==
    IF key.set /\ (key.begins \/ FileExists(key)) THEN key.bytes ELSE ""

SimulatedSignature(payload) ==
    [out |-> "simulated",
     signature |-> <<"SIMULATED_SIG_", Sha256HexStr(payload)>>,
     key_id |-> "simulated", algo |-> "NONE"]

NoSignature(out) ==
    [out |-> out, signature |-> << >>, key_id |-> "", algo |-> ""]

\* sign_payload without the fail-closed rule of CI.
SignPayloadSimulatesInCI(env, payload) ==
    IF ~env.crypto \/ KeyBytes(env.key) = ""
    THEN SimulatedSignature(payload)
    ELSE IF PairOfPrivate(KeyBytes(env.key)) = ""
    THEN NoSignature("SignatureError")
    ELSE [out |-> "signed",
          signature |-> B64Encode(RsaSign(PairOfPrivate(KeyBytes(env.key)),
                                          payload)),
          key_id |-> IF env.keyId = "unset" THEN "dev-local" ELSE env.keyId,
          algo |-> "RS256"]

\* sign_payload falling back to the simulated signature on a key it
\* cannot load.
SignPayloadFallsBackOnBadKey(env, payload) ==
    IF IsCI(env.ciVar) /\ (~env.crypto \/ ~HasValidKeySource(env.key))
    THEN NoSignature("fatal")
    ELSE IF ~env.crypto \/ KeyBytes(env.key) = ""
    THEN SimulatedSignature(payload)
    ELSE IF PairOfPrivate(KeyBytes(env.key)) = ""
    THEN SimulatedSignature(payload)
    ELSE [out |-> "signed",
          signature |-> B64Encode(RsaSign(PairOfPrivate(KeyBytes(env.key)),
                                          payload)),
          key_id |-> IF env.keyId = "unset" THEN "dev-local" ELSE env.keyId,
          algo |-> "RS256"]

\* sign_payload without the CI check on the cryptography library.
SignPayloadIgnoresMissingCrypto(env, payload) ==
    IF IsCI(env.ciVar) /\ ~HasValidKeySource(env.key)
    THEN NoSignature("fatal")
    ELSE IF ~env.crypto \/ KeyBytes(env.key) = ""
    THEN SimulatedSignature(payload)
    ELSE IF PairOfPrivate(KeyBytes(env.key)) = ""
    THEN NoSignature("SignatureError")
    ELSE [out |-> "signed",
          signature |-> B64Encode(RsaSign(PairOfPrivate(KeyBytes(env.key)),
                                          payload)),
          key_id |-> IF env.keyId = "unset" THEN "dev-local" ELSE env.keyId,
          algo |-> "RS256"]

\* sign_payload(payload) under the environment env.
SignPayload(env, payload) ==
    IF IsCI(env.ciVar) /\ (~env.crypto \/ ~HasValidKeySource(env.key))
    THEN NoSignature("fatal")
    ELSE IF ~env.crypto \/ KeyBytes(env.key) = ""
    THEN SimulatedSignature(payload)
    ELSE IF PairOfPrivate(KeyBytes(env.key)) = ""
    THEN NoSignature("SignatureError")
    ELSE [out |-> "signed",
          signature |-> B64Encode(RsaSign(PairOfPrivate(KeyBytes(env.key)),
                                          payload)),
          key_id |-> IF env.keyId = "unset" THEN "dev-local" ELSE env.keyId,
          algo |-> "RS256"]

\* ------------------------------------------------------------------------
\* cmd_make_artifact
\* ------------------------------------------------------------------------
Feature == "f"

\* POLICY.get('policy_version', 'unknown') of the loaded policy.
PolicyVersion == "unknown"

\* --metadata as given on the command line: JSON text, or text that
\* json.loads rejects.
MetadataText ==
    JsonTokens(JObj(<< <<(<<"b">>), JInt(1)>>,
                       <<(<<"a">>), JObj(<< <<(<<"d">>), JInt(2)>>,
                                            <<(<<"c">>), JStr(<<"x">>)>> >>)>> >>))

BadMetadataText == <<Tok("{"), StrTok(<<"b">>)>>

\* The command lines make-artifact is run with.
FullRequest ==
    [phase |-> "code", owner |-> <<"a", "@", "b">>, spec_hash |-> Some("h1"),
     trace_id |-> Some("t1"), metadata |-> Some(MetadataText),
     commit |-> "c0ffee"]

MinimalRequest ==
    [phase |-> "code", owner |-> <<"b", "o", "b">>, spec_hash |-> None,
     trace_id |-> None, metadata |-> None, commit |-> ""]

BadMetadataRequest ==
    [phase |-> "code", owner |-> <<"b", "o", "b">>, spec_hash |-> None,
     trace_id |-> Some("t1"), metadata |-> Some(BadMetadataText),
     commit |-> ""]

WarningRequest ==
    [phase |-> "scan_warning", owner |-> <<"b", "o", "b">>,
     spec_hash |-> Some("h1"), trace_id |-> Some("t1"), metadata |-> None,
     commit |-> ""]

Requests ==
    {FullRequest, MinimalRequest, BadMetadataRequest, WarningRequest}

ZeroCommit == "0000000000000000000000000000000000000000"

\* The artifact before signing; ok is FALSE where json.loads(args.metadata)
\* raises.  frac is the sub-second part of time.time().
BuildArtifact(req, now, frac) ==
    LET meta == IF req.metadata = None THEN [ok |-> TRUE, v |-> JObj(<< >>)]
                ELSE JsonLoads(req.metadata[1])
    IN  [ok |-> meta.ok,
         v |-> JObj(<<
            <<<<"f", "e", "a", "t", "u", "r", "e">>, JStr(<<Feature>>)>>,
            <<<<"p", "h", "a", "s", "e">>, JStr(<<req.phase>>)>>,
            <<<<"t", "i", "m", "e", "s", "t", "a", "m", "p">>, JStr(<<"T" \o ToString(now)>>)>>,
            <<<<"p", "o", "l", "i", "c", "y", "_", "v", "e", "r", "s", "i", "o", "n">>, JStr(<<PolicyVersion>>)>>,
            <<<<"o", "w", "n", "e", "r">>,
              IF \E i \in 1..Len(req.owner) : req.owner[i] = "@"
              THEN JObj(<< <<<<"e", "m", "a", "i", "l">>, JStr(req.owner)>> >>)
              ELSE JObj(<< <<<<"g", "i", "t", "h", "u", "b">>, JStr(req.owner)>> >>)>>,
            <<<<"s", "p", "e", "c", "_", "h", "a", "s", "h">>,
              JStr(<<(IF req.spec_hash = None THEN "pending"
                      ELSE req.spec_hash[1])>>)>>,
            <<<<"c", "o", "m", "m", "i", "t", "_", "h", "a", "s", "h">>,
              JStr(<<(IF req.commit = "" THEN ZeroCommit ELSE req.commit)>>)>>,
            <<<<"g", "e", "n", "e", "r", "a", "t", "o", "r">>, JStr(<<"unknown">>)>>,
            <<<<"t", "r", "a", "c", "e", "_", "i", "d">>,
              JStr(<<(IF req.trace_id = None
                      THEN "md5(" \o ToString(now) \o "." \o frac \o ")"
                      ELSE req.trace_id[1])>>)>>,
            <<<<"m", "e", "t", "a", "d", "a", "t", "a">>, meta.v>> >>)]

SignatureKey == <<"s", "i", "g", "n", "a", "t", "u", "r", "e">>

SignatureMetaKey == <<"s", "i", "g", "n", "a", "t", "u", "r", "e", "_", "m", "e", "t", "a">>

AlgoKey == <<"a", "l", "g", "o">>

\* artifact.update(sig_info)
WithSignature(artifact, sig) ==
    JObj(DictSet(DictSet(artifact.e, SignatureKey, JStr(sig.signature)),
                 SignatureMetaKey,
                 JObj(<< <<<<"k", "e", "y", "_", "i", "d">>, JStr(<<sig.key_id>>)>>,
                         <<AlgoKey, JStr(<<sig.algo>>)>> >>)))

WarningFile(t) == Feature \o ".warning." \o ToString(t) \o ".json"

\* out_path for the phase at time now.
ArtifactName(phase, now) ==
    IF phase = "scan_warning" THEN WarningFile(now)
    ELSE Feature \o "." \o phase \o ".json"

\* atomic_write(path, content): the file holds content, whole.
WriteFile(fs, name, content) ==
    [n \in DOMAIN fs \cup {name} |-> IF n = name THEN Some(content) ELSE fs[n]]

Exists(fs, name) == name \in DOMAIN fs

\* The environments of a run of make-artifact.
SignEnvs(cis, keys, keyIds) ==
    {env \in [ciVar : cis, crypto : BOOLEAN, key : keys, keyId : keyIds] :
        env.keyId # "unset" => env.key = InlineKey("priv-K1")}

\* The file content for each signature that the environments envs give
\* to the payload of artifact.
SignedContents(artifact, payload, envs) ==
    [sig \in {sg \in {SignPayload(env, payload) : env \in envs} :
                sg.out \in {"signed", "simulated"}} |->
        JsonTokens(WithSignature(artifact, sig))]

\* cmd_make_artifact under an environment drawn from cis, keys and keyIds.
\* The key id is read only where a key signs, and the sub-second part of
\* the clock only where the trace id is derived from it.  What does not
\* depend on the environment is computed once for all environments.
MakeArtifact(cis, keys, keyIds) ==
    \E frac \in {"0", "5"} :
    \E art \in {BuildArtifact(request, clock, frac)} :
    \E payload \in {canonicalize_json(art.v)} :
    \E content \in {SignedContents(art.v, payload,
                                    SignEnvs(cis, keys, keyIds))} :
       /\ (request.trace_id # None => frac = "0")
       /\ \E env \in SignEnvs(cis, keys, keyIds) :
             LET sig == SignPayload(env, payload)
                 out == IF ~art.ok THEN "JSONDecodeError" ELSE sig.out
                 name == ArtifactName(request.phase, clock)
             IN  /\ sigCmd' = [cmd |-> "make-artifact",
                               ciVar |-> env.ciVar, crypto |-> env.crypto,
                               key |-> env.key, keyId |-> env.keyId,
                               pub |-> NoKey, name |-> name, out |-> out]
                 /\ IF out \in {"signed", "simulated"}
                    THEN /\ files' = WriteFile(files, name, content[sig])
                         /\ written' = WriteFile(written, name, content[sig])
                    ELSE UNCHANGED <<files, written>>
       /\ UNCHANGED <<clock, request, specVars, jsonVars, depVars,
                   scanVars,
                   writeVars,
                   exitVars,
                   policyVars,
                   adapterPolicyVars,
                   callVars>>

CmdMakeArtifact == MakeArtifact(CiValues, SigningKeys, KeyIdValues)

\* make-artifact as run before a verification.
CmdMakeArtifactToVerify == MakeArtifact(CiValues, RoundTripKeys, {"unset"})

\* A second passes.
Tick ==
    /\ clock < MaxClock
    /\ clock' = clock + 1
    /\ UNCHANGED <<request, files, written, sigCmd, specVars, jsonVars, depVars,
                   scanVars,
                   writeVars,
                   exitVars,
                   policyVars,
                   adapterPolicyVars,
                   callVars>>

\* ------------------------------------------------------------------------
\* cmd_verify_sig
\* ------------------------------------------------------------------------
\* dict.pop(key, None) and dict.get(key): the value, if the key is there.
DictGet(es, key) ==
    IF \E i \in 1..Len(es) : es[i][1] = key
    THEN Some(es[CHOOSE i \in 1..Len(es) : es[i][1] = key][2])
    ELSE None

DictRemove(es, key) == SelectSeq(es, LAMBDA en : en[1] # key)

\* not v, of a parsed value or of None
FalsyValue(opt) ==
    \/ opt = None
    \/ /\ opt # None
       /\ \/ opt[1].t = "str" /\ opt[1].s = << >>
          \/ opt[1].t = "int" /\ opt[1].n = 0
          \/ opt[1].t = "obj" /\ opt[1].e = << >>

\* The fields of a parsed artifact other than signature.
SignedFieldsKeepMeta(v) == DictRemove(v.e, SignatureKey)

\* The fields of a parsed artifact other than signature and signature_meta.
SignedFields(v) == DictRemove(DictRemove(v.e, SignatureKey), SignatureMetaKey)

\* The file name as json.loads reads it, where it exists.
ReadArtifact(fs, name) ==
    IF Exists(fs, name) THEN JsonLoads(fs[name][1])
    ELSE [ok |-> FALSE, v |-> JInt(0)]

\* The payload verify-sig checks the signature against.
VerifiedPayload(data) ==
    IF data.ok /\ data.v.t = "obj"
    THEN canonicalize_json(JObj(SignedFields(data.v)))
    ELSE ""

\* cmd_verify_sig passing a simulated signature whose digest matches.
VerifySigAcceptsMatchingDigest(env, exists, data, payload) ==
    IF ~exists THEN "FileNotFoundError"
    ELSE IF ~FileExists(env.pub)
    THEN IF IsCI(env.ciVar) THEN "fatal" ELSE "skipped"
    ELSE IF ~env.crypto THEN "NoCrypto"
    ELSE IF ~data.ok THEN "JSONDecodeError"
    ELSE IF data.v.t # "obj" THEN "AttributeError"
    ELSE LET sig == DictGet(data.v.e, SignatureKey)
             meta == DictGet(data.v.e, SignatureMetaKey)
         IN  IF FalsyValue(sig) \/ FalsyValue(meta) THEN "SignatureError"
             ELSE IF meta[1].t # "obj" THEN "AttributeError"
             ELSE IF DictGet(meta[1].e, AlgoKey) = Some(JStr(<<"NONE">>))
             THEN IF sig[1].s = <<"SIMULATED_SIG_", Sha256HexStr(payload)>>
                  THEN "pass" ELSE "SimulatedRejected"
             ELSE IF sig[1].t # "str" THEN "TypeError"
             ELSE IF PairOfPublic(env.pub.bytes) = "" THEN "ValueError"
             ELSE IF ~RsaVerify(PairOfPublic(env.pub.bytes),
                                B64Decode(sig[1].s), payload)
             THEN "InvalidSignature"
             ELSE "pass"

\* cmd_verify_sig requiring the signature only.
VerifySigIgnoresMissingMeta(env, exists, data, payload) ==
    IF ~exists THEN "FileNotFoundError"
    ELSE IF ~FileExists(env.pub)
    THEN IF IsCI(env.ciVar) THEN "fatal" ELSE "skipped"
    ELSE IF ~env.crypto THEN "NoCrypto"
    ELSE IF ~data.ok THEN "JSONDecodeError"
    ELSE IF data.v.t # "obj" THEN "AttributeError"
    ELSE LET sig == DictGet(data.v.e, SignatureKey)
             meta == DictGet(data.v.e, SignatureMetaKey)
         IN  IF FalsyValue(sig) THEN "SignatureError"
             ELSE IF ~FalsyValue(meta) /\ meta[1].t # "obj"
             THEN "AttributeError"
             ELSE IF /\ ~FalsyValue(meta)
                     /\ DictGet(meta[1].e, AlgoKey) = Some(JStr(<<"NONE">>))
             THEN "SimulatedRejected"
             ELSE IF sig[1].t # "str" THEN "TypeError"
             ELSE IF PairOfPublic(env.pub.bytes) = "" THEN "ValueError"
             ELSE IF ~RsaVerify(PairOfPublic(env.pub.bytes),
                                B64Decode(sig[1].s), payload)
             THEN "InvalidSignature"
             ELSE "pass"

\* cmd_verify_sig treating a missing public key as fatal everywhere.
VerifySigNeverSkips(env, exists, data, payload) ==
    IF ~exists THEN "FileNotFoundError"
    ELSE IF ~FileExists(env.pub) THEN "fatal"
    ELSE IF ~env.crypto THEN "NoCrypto"
    ELSE IF ~data.ok THEN "JSONDecodeError"
    ELSE IF data.v.t # "obj" THEN "AttributeError"
    ELSE LET sig == DictGet(data.v.e, SignatureKey)
             meta == DictGet(data.v.e, SignatureMetaKey)
         IN  IF FalsyValue(sig) \/ FalsyValue(meta) THEN "SignatureError"
             ELSE IF meta[1].t # "obj" THEN "AttributeError"
             ELSE IF DictGet(meta[1].e, AlgoKey) = Some(JStr(<<"NONE">>))
             THEN "SimulatedRejected"
             ELSE IF sig[1].t # "str" THEN "TypeError"
             ELSE IF PairOfPublic(env.pub.bytes) = "" THEN "ValueError"
             ELSE IF ~RsaVerify(PairOfPublic(env.pub.bytes),
                                B64Decode(sig[1].s), payload)
             THEN "InvalidSignature"
             ELSE "pass"

\* cmd_verify_sig on a file (whether it exists, what json.loads makes of
\* it, the canonical form of what the two pops leave): how it ends.
VerifySigResult(env, exists, data, payload) ==
    IF ~exists THEN "FileNotFoundError"
    ELSE IF ~FileExists(env.pub)
    THEN IF IsCI(env.ciVar) THEN "fatal" ELSE "skipped"
    ELSE IF ~env.crypto THEN "NoCrypto"
    ELSE IF ~data.ok THEN "JSONDecodeError"
    ELSE IF data.v.t # "obj" THEN "AttributeError"
    ELSE LET sig == DictGet(data.v.e, SignatureKey)
             meta == DictGet(data.v.e, SignatureMetaKey)
         IN  IF FalsyValue(sig) \/ FalsyValue(meta) THEN "SignatureError"
             ELSE IF meta[1].t # "obj" THEN "AttributeError"
             ELSE IF DictGet(meta[1].e, AlgoKey) = Some(JStr(<<"NONE">>))
             THEN "SimulatedRejected"
             ELSE IF sig[1].t # "str" THEN "TypeError"
             ELSE IF PairOfPublic(env.pub.bytes) = "" THEN "ValueError"
             ELSE IF ~RsaVerify(PairOfPublic(env.pub.bytes),
                                B64Decode(sig[1].s), payload)
             THEN "InvalidSignature"
             ELSE "pass"

\* The runs that return normally; every other run ends in sys.exit(1),
\* called by the command or by main on the exception the command raises.
ReturnsNormally(out) == out \in {"pass", "skipped", "signed", "simulated"}

ExitStatus(out) == IF ReturnsNormally(out) THEN 0 ELSE 1

\* A name no artifact is written under.
MissingFile == Feature \o ".plan.json"

\* cmd_verify_sig.  The file is read and its payload computed once for all
\* environments.
CmdVerifySig ==
    \E name \in DOMAIN files \cup {MissingFile} :
    \E data \in {ReadArtifact(files, name)} :
    \E payload \in {VerifiedPayload(data)} :
    \E ciVar \in CiValues, crypto \in BOOLEAN, pub \in PublicKeys :
       LET env == [ciVar |-> ciVar, crypto |-> crypto, pub |-> pub]
       IN  /\ sigCmd' =
                 [cmd |-> "verify-sig", ciVar |-> ciVar,
                  crypto |-> crypto, key |-> NoKey, keyId |-> "unset",
                  pub |-> pub, name |-> name,
                  out |-> VerifySigResult(env, Exists(files, name),
                                          data, payload)]
           /\ UNCHANGED <<clock, request, files, written, specVars,
                          jsonVars, depVars,
                   scanVars,
                   writeVars,
                   exitVars,
                   policyVars,
                   adapterPolicyVars,
                   callVars>>

\* ------------------------------------------------------------------------
\* Someone edits an artifact file after it was written
\* ------------------------------------------------------------------------
TamperedValue == JStr(<<"tampered">>)

\* The entries es with the value of entry i altered: in its first entry
\* where it is a non-empty mapping, replaced otherwise.
AlterEntry(es, i) ==
    IF es[i][2].t = "obj" /\ es[i][2].e # << >>
    THEN [es EXCEPT ![i] = <<es[i][1],
             JObj([es[i][2].e EXCEPT ![1] = <<es[i][2].e[1][1],
                                              TamperedValue>>])>>]
    ELSE [es EXCEPT ![i] = <<es[i][1], TamperedValue>>]

RemoveEntry(es, i) ==
    [k \in 1..(Len(es) - 1) |-> IF k < i THEN es[k] ELSE es[k + 1]]

\* While every file is as it was written, one has a non-signature field
\* altered, removed or added; its signature fields are left as they are.
\* What the last command reported was about the files before the edit.
Tamper ==
    /\ files = written
    /\ \E name \in DOMAIN files :
       \E es \in {JsonLoads(files[name][1]).v.e} :
          LET fields == {i \in 1..Len(es) :
                           es[i][1] \notin {SignatureKey, SignatureMetaKey}}
          IN  \E altered \in {AlterEntry(es, i) : i \in fields}
                             \cup {RemoveEntry(es, SetMax(fields))}
                             \cup {Append(es, <<(<<"x">>), TamperedValue>>)} :
                 files' = [files EXCEPT
                             ![name] = Some(JsonTokens(JObj(altered)))]
    /\ sigCmd' = NoCmd
    /\ UNCHANGED <<clock, request, written, specVars, jsonVars, depVars,
                   scanVars,
                   writeVars,
                   exitVars,
                   policyVars,
                   adapterPolicyVars,
                   callVars>>

InitSign ==
    /\ clock = 0
    /\ request \in Requests
    /\ files = [n \in {} |-> None]
    /\ written = [n \in {} |-> None]
    /\ sigCmd = NoCmd
    /\ NoSpecFile
    /\ JsonIdle
    /\ DepsIdle
    /\ ScanIdle
    /\ WriteIdle
    /\ ExitIdle
    /\ PolicyIdle
    /\ AdapterPolicyIdle
    /\ CallIdle

NextSign ==
    \/ CmdMakeArtifact
    \/ Tick

\* Artifacts are made, second after second.
SpecSign == InitSign /\ [][NextSign]_vars

InitSig ==
    /\ clock = 0
    /\ request \in {FullRequest, MinimalRequest, WarningRequest}
    /\ files = [n \in {} |-> None]
    /\ written = [n \in {} |-> None]
    /\ sigCmd = NoCmd
    /\ NoSpecFile
    /\ JsonIdle
    /\ DepsIdle
    /\ ScanIdle
    /\ WriteIdle
    /\ ExitIdle
    /\ PolicyIdle
    /\ AdapterPolicyIdle
    /\ CallIdle

NextSig ==
    \/ CmdMakeArtifactToVerify
    \/ CmdVerifySig
    \/ Tamper

\* Artifacts are made, edited and verified.
SpecSig == InitSig /\ [][NextSig]_vars

\* ------------------------------------------------------------------------
\* cmd_check_deps
\* ------------------------------------------------------------------------
\* Module and package names are strings of characters.
UpperLetters ==
    <<"A", "B", "C", "D", "E", "F", "G", "H", "I", "J", "K", "L", "M", "N",
      "O", "P", "Q", "R", "S", "T", "U", "V", "W", "X", "Y", "Z">>

LowerLetters ==
    <<"a", "b", "c", "d", "e", "f", "g", "h", "i", "j", "k", "l", "m", "n",
      "o", "p", "q", "r", "s", "t", "u", "v", "w", "x", "y", "z">>

LowerChar(c) ==
    IF \E i \in 1..Len(UpperLetters) : UpperLetters[i] = c
    THEN LowerLetters[CHOOSE i \in 1..Len(UpperLetters) : UpperLetters[i] = c]
    ELSE c

\* str.lower()
StrLower(cs) == [i \in 1..Len(cs) |-> LowerChar(cs[i])]

\* str.replace('_', '-')
Dashed(cs) == [i \in 1..Len(cs) |-> IF cs[i] = "_" THEN "-" ELSE cs[i]]

ModOs == <<"o", "s">>

ModPath == <<"p", "a", "t", "h">>

ModYaml == <<"y", "a", "m", "l">>

ModNodes == <<"n", "o", "d", "e", "s">>

ModMylib == <<"m", "y", "l", "i", "b">>

ModFlaskCors == <<"F", "l", "a", "s", "k", "_", "C", "o", "r", "s">>

PkgFlaskCors == <<"f", "l", "a", "s", "k", "-", "c", "o", "r", "s">>

\* sys.stdlib_module_names, as far as the sources here import from it.
StdlibNames == {ModOs}

\* The names src/<name> exists for.
LocalNames == {{ModMylib}, {ModMylib, ModYaml}}

\* import a.b, c
ImportStmt(names) ==
    [kind |-> "import", names |-> names, module |-> None, level |-> 0]

\* from <level dots><module> import x
FromStmt(module, level) ==
    [kind |-> "from", names |-> << >>, module |-> module, level |-> level]

ImportStatements ==
    {ImportStmt(<< <<ModOs>> >>),
     ImportStmt(<< <<ModOs, ModPath>>, <<ModYaml>> >>),
     ImportStmt(<< <<ModFlaskCors>> >>),
     FromStmt(Some(<<ModYaml, ModNodes>>), 0),
     FromStmt(Some(<<ModMylib>>), 0),
     FromStmt(None, 1),
     FromStmt(Some(<<ModFlaskCors>>), 1)}

\* The target file: whether ast.parse accepts it, and its import
\* statements wherever they stand in the tree.
Sources ==
    {[parses |-> FALSE, stmts |-> {}]}
    \cup {[parses |-> TRUE, stmts |-> ss] :
            ss \in {x \in SUBSET ImportStatements : Cardinality(x) <= MaxImports}}

\* The names one statement adds to imports.
ImportedBy(stmt) ==
    IF stmt.kind = "import"
    THEN {stmt.names[i][1] : i \in 1..Len(stmt.names)}
    ELSE IF stmt.module # None /\ stmt.level = 0
    THEN {stmt.module[1][1]}
    ELSE {}

Imports(source) == UNION {ImportedBy(stmt) : stmt \in source.stmts}

\* The loaded policy: whether it has dependency_rules, and the keys of
\* allowed_packages as written there.
AllowKeys == {ModYaml, ModFlaskCors, PkgFlaskCors}

Policies ==
    {[rules |-> FALSE, allowed |-> {}]}
    \cup {[rules |-> TRUE, allowed |-> ks] : ks \in SUBSET AllowKeys}

\* allowed_packages with its keys in lower case
AllowedPkgs(policy) == {StrLower(k) : k \in policy.allowed}

\* poetry.lock: whether it exists, whether a TOML parser is there, whether
\* the parser accepts the text, and the package tables in order, each with
\* its name or without one.
LockEntries == {Some(ModYaml), Some(PkgFlaskCors), None}

NoLock == [exists |-> FALSE, toml |-> FALSE, parses |-> FALSE, pkgs |-> << >>]

Locks ==
    {NoLock}
    \cup {[exists |-> TRUE, toml |-> tp[1], parses |-> tp[2], pkgs |-> ps] :
            tp \in {<<TRUE, TRUE>>, <<TRUE, FALSE>>, <<FALSE, TRUE>>},
            ps \in SeqsUpTo(LockEntries, MaxLockPackages)}

\* The names added before the loop over the package tables meets a table
\* without a name, which raises and ends the loop.
RECURSIVE NamesUntilError(_)
NamesUntilError(pkgs) ==
    IF pkgs = << >> \/ pkgs[1] = None THEN {}
    ELSE {StrLower(pkgs[1][1])} \cup NamesUntilError(Tail(pkgs))

\* lock_names
LockNames(lock) ==
    IF ~lock.exists THEN {}
    ELSE IF lock.toml
    THEN IF lock.parses THEN NamesUntilError(lock.pkgs) ELSE {}
    ELSE {StrLower(lock.pkgs[i][1]) :
            i \in {j \in 1..Len(lock.pkgs) : lock.pkgs[j] # None}}

\* The imports that neither check skips.
ThirdParty(imports, local) ==
    {imp \in imports : imp \notin StdlibNames /\ imp \notin local}

LockViolations(imports, local, names) ==
    IF names = {} THEN {}
    ELSE {imp \in ThirdParty(imports, local) :
            /\ StrLower(imp) \notin names
            /\ Dashed(StrLower(imp)) \notin names}

PolicyViolations(imports, local, allowed) ==
    {imp \in ThirdParty(imports, local) : StrLower(imp) \notin allowed}

Passed == [out |-> "pass", message |-> "", report |-> None]

\* cmd_check_deps taking a policy without dependency_rules as no rule.
CheckDepsOpenWithoutRules(policy, source, local, lock) ==
    IF ~source.parses
    THEN [out |-> "PolicyViolation", message |-> "Syntax Error",
          report |-> None]
    ELSE LET lv == LockViolations(Imports(source), local, LockNames(lock))
             pv == IF ~policy.rules THEN {}
                   ELSE PolicyViolations(Imports(source), local,
                                         AllowedPkgs(policy))
         IN  IF pv # {} \/ lv # {}
             THEN [out |-> "PolicyViolation",
                   message |-> "Dependency Check Failed",
                   report |-> Some([policy_violations |-> pv,
                                    lock_file_violations |-> lv,
                                    policy_version |-> PolicyVersion])]
             ELSE Passed

\* cmd_check_deps without the lock-file check.
CheckDepsIgnoresLock(policy, source, local, lock) ==
    IF ~source.parses
    THEN [out |-> "PolicyViolation", message |-> "Syntax Error",
          report |-> None]
    ELSE LET pv == PolicyViolations(Imports(source), local,
                                    AllowedPkgs(policy))
         IN  IF pv # {}
             THEN [out |-> "PolicyViolation",
                   message |-> "Dependency Check Failed",
                   report |-> Some([policy_violations |-> pv,
                                    lock_file_violations |-> {},
                                    policy_version |-> PolicyVersion])]
             ELSE Passed

\* cmd_check_deps raising before the report is written.
CheckDepsRaisesFirst(policy, source, local, lock) ==
    IF ~source.parses
    THEN [out |-> "PolicyViolation", message |-> "Syntax Error",
          report |-> None]
    ELSE LET lv == LockViolations(Imports(source), local, LockNames(lock))
             pv == PolicyViolations(Imports(source), local,
                                    AllowedPkgs(policy))
         IN  IF pv # {} \/ lv # {}
             THEN [out |-> "PolicyViolation",
                   message |-> "Dependency Check Failed", report |-> None]
             ELSE Passed

\* cmd_check_deps: how it ends and the report it writes.  The two lists
\* of the report are filled in the iteration order of a set, which is not
\* fixed; they are kept as sets.
CheckDepsResult(policy, source, local, lock) ==
    IF ~source.parses
    THEN [out |-> "PolicyViolation", message |-> "Syntax Error",
          report |-> None]
    ELSE LET lv == LockViolations(Imports(source), local, LockNames(lock))
             pv == PolicyViolations(Imports(source), local,
                                    AllowedPkgs(policy))
         IN  IF pv # {} \/ lv # {}
             THEN [out |-> "PolicyViolation",
                   message |-> "Dependency Check Failed",
                   report |-> Some([policy_violations |-> pv,
                                    lock_file_violations |-> lv,
                                    policy_version |-> PolicyVersion])]
             ELSE Passed

TargetStem == "app"

ReportName(stem) == stem \o ".deps_violation.json"

CmdCheckDeps ==
    LET r == CheckDepsResult(depPolicy, depSource, depLocal, depLock)
    IN  /\ depCmd' = [out |-> r.out, message |-> r.message]
        /\ depFiles' = IF r.report = None THEN depFiles
                       ELSE WriteFile(depFiles, ReportName(TargetStem),
                                      r.report[1])
        /\ UNCHANGED <<depPolicy, depSource, depLocal, depLock, specVars,
                       jsonVars, sigVars,
                   scanVars,
                   writeVars,
                   exitVars,
                   policyVars,
                   adapterPolicyVars,
                   callVars>>

InitDeps ==
    /\ depPolicy \in Policies
    /\ depSource \in Sources
    /\ depLocal \in LocalNames
    /\ depLock \in Locks
    /\ depFiles = [n \in {} |-> None]
    /\ depCmd = [out |-> "none", message |-> ""]
    /\ NoSpecFile
    /\ JsonIdle
    /\ SigIdle
    /\ ScanIdle
    /\ WriteIdle
    /\ ExitIdle
    /\ PolicyIdle
    /\ AdapterPolicyIdle
    /\ CallIdle

NextDeps == CmdCheckDeps

SpecDeps == InitDeps /\ [][NextDeps]_vars

\* ------------------------------------------------------------------------
\* cmd_scan_tests
\* ------------------------------------------------------------------------
ModSubprocess == <<"s", "u", "b", "p", "r", "o", "c", "e", "s", "s">>

ModSocket == <<"s", "o", "c", "k", "e", "t">>

NameEval == <<"e", "v", "a", "l">>

NameSystem == <<"s", "y", "s", "t", "e", "m">>

NamePrint == <<"p", "r", "i", "n", "t">>

\* The nodes of the tree that the scan looks at: import a.b, c
ScanImport(names) ==
    [kind |-> "import", names |-> names, module |-> None, level |-> 0,
     func |-> "", callee |-> << >>]

\* from <level dots><module> import x
ScanFrom(module, level) ==
    [kind |-> "from", names |-> << >>, module |-> module, level |-> level,
     func |-> "", callee |-> << >>]

\* A call whose func is a Name (callee is its id), an Attribute (callee
\* is its attr) or another expression.
ScanCall(func, callee) ==
    [kind |-> "call", names |-> << >>, module |-> None, level |-> 0,
     func |-> func, callee |-> callee]

ScanNodes ==
    {ScanImport(<< <<ModSubprocess, ModPath>> >>),
     ScanImport(<< <<ModOs>>, <<ModSocket>> >>),
     ScanFrom(Some(<<ModSubprocess>>), 0),
     ScanFrom(Some(<<ModSubprocess>>), 1),
     ScanFrom(None, 1),
     ScanCall("Name", NameEval),
     ScanCall("Attribute", NameSystem),
     ScanCall("Name", NamePrint),
     ScanCall("Other", << >>)}

\* The target file: whether ast.parse accepts it, and the nodes above in
\* the order ast.walk yields them.
ScanSources ==
    {[parses |-> FALSE, nodes |-> << >>]}
    \cup {[parses |-> TRUE, nodes |-> ns] : ns \in SeqsUpTo(ScanNodes, MaxNodes)}

\* security_rules: test_banned_modules, test_restricted_modules and
\* test_banned_calls, each empty where the policy does not give it.
ScanPolicies ==
    {[banned |-> {}, restricted |-> {}, calls |-> {}],
     [banned |-> {ModSubprocess}, restricted |-> {ModSocket},
      calls |-> {NameEval, NameSystem}],
     [banned |-> {ModSubprocess}, restricted |-> {ModSubprocess, ModSocket},
      calls |-> {}]}

\* The module names one node is checked for.
ScannedModules(node) ==
    IF node.kind = "import"
    THEN [i \in 1..Len(node.names) |-> node.names[i][1]]
    ELSE IF node.kind = "from" /\ node.module # None
    THEN <<node.module[1][1]>>
    ELSE << >>

CallPrefix == <<"C", "a", "l", "l", ":">>

\* What one node appends to banned.
BannedBy(policy, node) ==
    IF node.kind = "call"
    THEN IF node.func \in {"Name", "Attribute"} /\ node.callee \in policy.calls
         THEN <<CallPrefix \o node.callee>>
         ELSE << >>
    ELSE SelectSeq(ScannedModules(node), LAMBDA m : m \in policy.banned)

\* What one node appends to restricted.
RestrictedBy(policy, node) ==
    IF node.kind = "call" THEN << >>
    ELSE SelectSeq(ScannedModules(node), LAMBDA m : m \in policy.restricted)

\* The lists banned and restricted after the walk.
BannedList(policy, nodes) ==
    Concat([i \in 1..Len(nodes) |-> BannedBy(policy, nodes[i])])

RestrictedList(policy, nodes) ==
    Concat([i \in 1..Len(nodes) |-> RestrictedBy(policy, nodes[i])])

TargetPath == "tests/test_app.py"

ScanPassed(warned) ==
    [out |-> "pass", message |-> "", warned |-> warned, report |-> None]

\* cmd_scan_tests looking at the calls of plain names only.
ScanTestsSkipsAttributeCalls(policy, source) ==
    IF ~source.parses
    THEN [out |-> "PolicyViolation", message |-> "Syntax Error",
          warned |-> FALSE, report |-> None]
    ELSE LET seen == SelectSeq(source.nodes,
                        LAMBDA n : ~(n.kind = "call" /\ n.func = "Attribute"))
             banned == BannedList(policy, seen)
         IN  IF banned # << >>
             THEN [out |-> "PolicyViolation",
                   message |-> "BANNED modules/calls detected",
                   warned |-> FALSE,
                   report |-> Some([violations |-> banned,
                                    file |-> TargetPath])]
             ELSE ScanPassed(RestrictedList(policy, source.nodes) # << >>)

\* cmd_scan_tests: how it ends, whether it warns, the report it writes.
ScanTestsResult(policy, source) ==
    IF ~source.parses
    THEN [out |-> "PolicyViolation", message |-> "Syntax Error",
          warned |-> FALSE, report |-> None]
    ELSE LET banned == BannedList(policy, source.nodes)
         IN  IF banned # << >>
             THEN [out |-> "PolicyViolation",
                   message |-> "BANNED modules/calls detected",
                   warned |-> FALSE,
                   report |-> Some([violations |-> banned,
                                    file |-> TargetPath])]
             ELSE ScanPassed(RestrictedList(policy, source.nodes) # << >>)

IncidentName(now) == "banned_" \o ToString(now) \o ".json"

CmdScanTests ==
    LET r == ScanTestsResult(scanPolicy, scanSource)
    IN  /\ scanCmd' = [out |-> r.out, message |-> r.message,
                       warned |-> r.warned]
        /\ incFiles' = IF r.report = None THEN incFiles
                       ELSE WriteFile(incFiles, IncidentName(clock),
                                      r.report[1])
        /\ UNCHANGED <<scanPolicy, scanSource, specVars, jsonVars, sigVars,
                       depVars,
                   writeVars,
                   exitVars,
                   policyVars,
                   adapterPolicyVars,
                   callVars>>

InitScan ==
    /\ scanPolicy \in ScanPolicies
    /\ scanSource \in ScanSources
    /\ incFiles = [n \in {} |-> None]
    /\ scanCmd = [out |-> "none", message |-> "", warned |-> FALSE]
    /\ NoSpecFile
    /\ JsonIdle
    /\ SigIdle
    /\ DepsIdle
    /\ WriteIdle
    /\ ExitIdle
    /\ PolicyIdle
    /\ AdapterPolicyIdle
    /\ CallIdle

NextScan == CmdScanTests

SpecScan == InitScan /\ [][NextScan]_vars

\* ------------------------------------------------------------------------
\* atomic_write
\* ------------------------------------------------------------------------
\* The concurrent invocations, all on the same path, and the content each
\* is given, in the pieces the operating system may take it in.
Writers == {"w1", "w2"}

ContentOf(w) == IF w = "w1" THEN <<"a1", "a2">> ELSE <<"b1", "b2", "b3">>

OldContent == <<"old">>

PathName == "out.json"

\* The name NamedTemporaryFile gives the invocation: in the folder of the
\* path and unlike every name in use.
TempName(w) == "tmp_" \o w

\* An invocation that writes to the path itself.
WritesInPlace(w) == PathName

\* The file an invocation writes its content to.
WriteTarget(w) == TempName(w)

RemoveFile(fs, name) == [n \in DOMAIN fs \ {name} |-> fs[n]]

\* os.replace(src, dst): dst holds what src held and src is gone, at once.
Replace(fs, src, dst) ==
    IF src = dst THEN fs
    ELSE [n \in (DOMAIN fs \cup {dst}) \ {src} |->
            IF n = dst THEN fs[src] ELSE fs[n]]

AwFrame == UNCHANGED <<awOld, specVars, jsonVars, sigVars, depVars, scanVars,
                   exitVars,
                   policyVars,
                   adapterPolicyVars,
                   callVars>>

\* tempfile.NamedTemporaryFile(mode='w', dir=folder, delete=False)
CreateTemp(w) ==
    /\ awPc[w] = "idle"
    /\ awFs' = WriteFile(awFs, WriteTarget(w), << >>)
    /\ awPc' = [awPc EXCEPT ![w] = "open"]
    /\ UNCHANGED <<awOrder, awRead>>
    /\ AwFrame

\* tf.write(content) and the close at the end of the with block: the
\* pieces reach the file one after the other.
WritePiece(w) ==
    /\ awPc[w] = "open"
    /\ LET have == awFs[WriteTarget(w)][1]
           next == Append(have, ContentOf(w)[Len(have) + 1])
       IN  /\ Len(have) < Len(ContentOf(w))
           /\ awFs' = WriteFile(awFs, WriteTarget(w), next)
           /\ awPc' = [awPc EXCEPT
                         ![w] = IF next = ContentOf(w) THEN "closed"
                                ELSE "open"]
    /\ UNCHANGED <<awOrder, awRead>>
    /\ AwFrame

\* The write raises (the disk is full): the exception leaves the with
\* block, which is outside the try, and the invocation ends.
WriteFails(w) ==
    /\ awPc[w] = "open"
    /\ awPc' = [awPc EXCEPT ![w] = "raised"]
    /\ UNCHANGED <<awFs, awOrder, awRead>>
    /\ AwFrame

\* if path.exists(): shutil.copymode(path, temp_path), which copies the
\* permission bits and no content.
CopyMode(w) ==
    /\ awPc[w] = "closed"
    /\ awPc' = [awPc EXCEPT ![w] = "ready"]
    /\ UNCHANGED <<awFs, awOrder, awRead>>
    /\ AwFrame

\* os.replace(temp_path, path)
ReplacePath(w) ==
    /\ awPc[w] = "ready"
    /\ awFs' = Replace(awFs, WriteTarget(w), PathName)
    /\ awOrder' = Append(awOrder, w)
    /\ awPc' = [awPc EXCEPT ![w] = "done"]
    /\ UNCHANGED awRead
    /\ AwFrame

\* os.replace raises: the handler removes the temporary file and raises.
ReplaceFails(w) ==
    /\ awPc[w] = "ready"
    /\ awFs' = IF WriteTarget(w) = PathName THEN awFs
               ELSE RemoveFile(awFs, WriteTarget(w))
    /\ awPc' = [awPc EXCEPT ![w] = "raised"]
    /\ UNCHANGED <<awOrder, awRead>>
    /\ AwFrame

\* Another process reads the path.
ReadPath ==
    /\ awRead' = [seen |-> TRUE,
                  content |-> IF Exists(awFs, PathName) THEN awFs[PathName]
                              ELSE None]
    /\ UNCHANGED <<awFs, awPc, awOrder>>
    /\ AwFrame

InitWrite ==
    /\ awOld \in {None, Some(OldContent)}
    /\ awFs = IF awOld = None THEN [n \in {} |-> None]
              ELSE WriteFile([n \in {} |-> None], PathName, awOld[1])
    /\ awPc = [w \in Writers |-> "idle"]
    /\ awOrder = << >>
    /\ awRead = [seen |-> FALSE, content |-> None]
    /\ NoSpecFile
    /\ JsonIdle
    /\ SigIdle
    /\ DepsIdle
    /\ ScanIdle
    /\ ExitIdle
    /\ PolicyIdle
    /\ AdapterPolicyIdle
    /\ CallIdle

NextWrite ==
    \/ \E w \in Writers :
          \/ CreateTemp(w)
          \/ WritePiece(w)
          \/ WriteFails(w)
          \/ CopyMode(w)
          \/ ReplacePath(w)
          \/ ReplaceFails(w)
    \/ ReadPath

SpecWrite == InitWrite /\ [][NextWrite]_vars

\* ------------------------------------------------------------------------
\* Someone strips the signature fields of an artifact
\* ------------------------------------------------------------------------
\* The values Python takes as false.
EmptyValues == {JStr(<< >>), JInt(0), JObj(<< >>)}

\* While every file is as it was written, one has its signature or its
\* signature_meta removed or emptied.
StripSignature ==
    /\ files = written
    /\ \E name \in DOMAIN files :
       \E es \in {JsonLoads(files[name][1]).v.e} :
       \E key \in {SignatureKey, SignatureMetaKey} :
       \E stripped \in {DictRemove(es, key)}
                          \cup {DictSet(es, key, v) : v \in EmptyValues} :
          files' = [files EXCEPT
                      ![name] = Some(JsonTokens(JObj(stripped)))]
    /\ sigCmd' = NoCmd
    /\ UNCHANGED <<clock, request, written, specVars, jsonVars, depVars,
                   scanVars, writeVars,
                   exitVars,
                   policyVars,
                   adapterPolicyVars,
                   callVars>>

InitUnsigned ==
    /\ clock = 0
    /\ request \in {MinimalRequest, WarningRequest}
    /\ files = [n \in {} |-> None]
    /\ written = [n \in {} |-> None]
    /\ sigCmd = NoCmd
    /\ NoSpecFile
    /\ JsonIdle
    /\ DepsIdle
    /\ ScanIdle
    /\ WriteIdle
    /\ ExitIdle
    /\ PolicyIdle
    /\ AdapterPolicyIdle
    /\ CallIdle

NextUnsigned ==
    \/ CmdMakeArtifactToVerify
    \/ StripSignature
    \/ CmdVerifySig

\* Artifacts are made, stripped of a signature field and verified.
SpecUnsigned == InitUnsigned /\ [][NextUnsigned]_vars

\* ------------------------------------------------------------------------
\* main: the exit status of a run
\* ------------------------------------------------------------------------
Categories == {"PolicyViolation", "SignatureError", "NotFound", "Fatal"}

\* How a command leaves: by returning, by raising an exception that
\* reaches main, or by calling sys.exit itself with a code.
Returns == [raises |-> "", code |-> 0]

Raises(exception) == [raises |-> exception, code |-> 0]

SysExit(code) == [raises |-> "", code |-> code]

Site(cmd, category, how) == [cmd |-> cmd, category |-> category, how |-> how]

\* The places where a command fails, with the category of the failure.
FailureSites ==
    {Site("make-artifact", "Fatal", SysExit(1)),
     Site("make-artifact", "SignatureError", Raises("SignatureError")),
     Site("verify-spec", "NotFound", SysExit(1)),
     Site("verify-spec", "PolicyViolation", Raises("PolicyViolation")),
     Site("verify-spec", "PolicyViolation", SysExit(1)),
     Site("verify-sig", "NotFound", Raises("FileNotFoundError")),
     Site("verify-sig", "Fatal", SysExit(1)),
     Site("verify-sig", "SignatureError", Raises("SignatureError")),
     Site("verify-sig", "SignatureError", SysExit(1)),
     Site("check-deps", "PolicyViolation", Raises("PolicyViolation")),
     Site("scan-tests", "PolicyViolation", Raises("PolicyViolation")),
     Site("hash", "NotFound", SysExit(1))}

Commands == {s.cmd : s \in FailureSites}

\* The status main ends with: 0 on a return, the code of a sys.exit in
\* the command, and sys.exit(1) in the handler of every Exception.
MainStatus(how) == IF how.raises # "" THEN 1 ELSE how.code

ExitFrame == UNCHANGED <<specVars, jsonVars, sigVars, depVars, scanVars,
                         writeVars,
                   policyVars,
                   adapterPolicyVars,
                   callVars>>

\* A run of main that fails at one of the sites.
MainFails ==
    \E site \in FailureSites :
       /\ exitRun' = [cmd |-> site.cmd,
                      how |-> IF site.how.raises # "" THEN site.how.raises
                              ELSE "sys.exit",
                      category |-> site.category,
                      status |-> MainStatus(site.how)]
       /\ exitSeen' = [exitSeen EXCEPT
                         ![site.category] = @ \cup {MainStatus(site.how)}]
       /\ ExitFrame

\* A run of main whose command returns.
MainReturns ==
    \E cmd \in Commands :
       /\ exitRun' = [cmd |-> cmd, how |-> "return", category |-> "none",
                      status |-> MainStatus(Returns)]
       /\ UNCHANGED exitSeen
       /\ ExitFrame

InitExit ==
    /\ exitRun = [cmd |-> "none", how |-> "none", category |-> "none",
                  status |-> 0]
    /\ exitSeen = [c \in Categories |-> {}]
    /\ NoSpecFile
    /\ JsonIdle
    /\ SigIdle
    /\ DepsIdle
    /\ ScanIdle
    /\ WriteIdle
    /\ PolicyIdle
    /\ AdapterPolicyIdle
    /\ CallIdle

NextExit == MainFails \/ MainReturns

SpecExit == InitExit /\ [][NextExit]_vars

\* ------------------------------------------------------------------------
\* load_policy
\* ------------------------------------------------------------------------
\* The lines of a policy document: a 'key: value' line, a '- item' line,
\* a plain word, a comment, and a line no YAML parser accepts.
YamlLine(kind, key, val) == [kind |-> kind, key |-> key, val |-> val]

YamlLines ==
    {YamlLine("pair", "policy_version", "v2"),
     YamlLine("pair", "policy_version", "v3"),
     YamlLine("pair", "owner", "qa"),
     YamlLine("item", "", "flask"),
     YamlLine("scalar", "", "draft"),
     YamlLine("comment", "", ""),
     YamlLine("broken", "", "")}

PolicyDocs == {None} \cup {Some(ls) : ls \in SeqsUpTo(YamlLines, MaxPolicyLines)}

\* The values load_policy can return.
PyNone == [t |-> "none", e |-> << >>]

PyDict(entries) == [t |-> "dict", e |-> entries]

PyList == [t |-> "list", e |-> << >>]

PyStr == [t |-> "str", e |-> << >>]

RECURSIVE PairsOf(_)
PairsOf(ls) ==
    IF ls = << >> THEN << >>
    ELSE DictSet(PairsOf(SubSeq(ls, 1, Len(ls) - 1)),
                 ls[Len(ls)].key, ls[Len(ls)].val)

\* yaml.safe_load of the lines: an error, or the value of the document,
\* None for a document with no content.
SafeLoad(ls) ==
    LET content == SelectSeq(ls, LAMBDA l : l.kind # "comment")
        kinds == {content[i].kind : i \in 1..Len(content)}
        keys == {content[i].key : i \in 1..Len(content)}
    IN  IF "broken" \in kinds \/ Cardinality(kinds) > 1
        THEN [ok |-> FALSE, v |-> PyNone]
        ELSE IF kinds = {} THEN [ok |-> TRUE, v |-> PyNone]
        ELSE IF kinds = {"pair"} THEN [ok |-> TRUE, v |-> PyDict(PairsOf(content))]
        ELSE IF kinds = {"item"} THEN [ok |-> TRUE, v |-> PyList]
        ELSE [ok |-> TRUE, v |-> PyStr]

load_policy(doc) ==
    IF doc = None THEN PyDict(<< >>)
    ELSE IF ~SafeLoad(doc[1]).ok THEN PyDict(<< >>)
    ELSE SafeLoad(doc[1]).v

\* POLICY = load_policy(); POLICY_VERSION = POLICY.get('policy_version',
\* 'unknown'), at the import of the module: a value without get ends the
\* process with an AttributeError.
ImportToolkit ==
    /\ polLoad.out = "none"
    /\ LET policy == load_policy(polDoc)
           version == DictGet(policy.e, "policy_version")
       IN  polLoad' =
             IF policy.t # "dict"
             THEN [out |-> "AttributeError", policy |-> policy, version |-> ""]
             ELSE [out |-> "imported", policy |-> policy,
                   version |-> IF version = None THEN "unknown"
                               ELSE version[1]]
    /\ UNCHANGED <<polDoc, specVars, jsonVars, sigVars, depVars, scanVars,
                   writeVars, exitVars,
                   adapterPolicyVars,
                   callVars>>

InitPolicy ==
    /\ polDoc \in PolicyDocs
    /\ polLoad = [out |-> "none", policy |-> PyNone, version |-> ""]
    /\ NoSpecFile
    /\ JsonIdle
    /\ SigIdle
    /\ DepsIdle
    /\ ScanIdle
    /\ WriteIdle
    /\ ExitIdle
    /\ AdapterPolicyIdle
    /\ CallIdle

NextPolicy == ImportToolkit

SpecPolicy == InitPolicy /\ [][NextPolicy]_vars

\* ------------------------------------------------------------------------
\* ModelAdapter.verify_policy
\* ------------------------------------------------------------------------
Phases == {"spec", "code"}

\* The entries of the lists of model_rules.
RuleNames ==
    {<<"g", "p", "t">>, <<"G", "p", "t", "-", "4">>, <<"g", "e", "m">>}

\* The model names asked about.
ModelNames ==
    {<<"g", "p", "t">>, <<"G", "P", "T", "-", "4">>,
     <<"g", "p", "t", "-", "4", "-", "t">>, <<"g", "p", "t", "/", "x">>,
     <<"g", "p", "t", "x">>, <<"g", "p", "t", "-">>, <<"G", "e", "m">>,
     <<"g", "e">>, <<"c", "l">>}

\* model_rules: absent, or for some of the phases a list of entries.
ModelRules ==
    {None}
    \cup {Some(f) : f \in UNION {[ps -> SeqsUpTo(RuleNames, MaxRules)] :
                                   ps \in SUBSET Phases}}

\* str.startswith
StartsWith(cs, prefix) ==
    /\ Len(cs) >= Len(prefix)
    /\ SubSeq(cs, 1, Len(prefix)) = prefix

\* set(rules.get(phase, [])) with rules = policy.get('model_rules', {})
AllowedModels(rules, phase) ==
    IF rules = None THEN {}
    ELSE IF phase \notin DOMAIN rules[1] THEN {}
    ELSE {rules[1][phase][i] : i \in 1..Len(rules[1][phase])}

\* verify_policy accepting every name that starts with an entry.
VerifyPolicyAnyPrefix(rules, phase, model) ==
    LET allowed == AllowedModels(rules, phase)
    IN  IF allowed = {} THEN FALSE
        ELSE \E allowed_model \in allowed :
                StartsWith(StrLower(model), StrLower(allowed_model))

verify_policy(rules, phase, model) ==
    LET allowed == AllowedModels(rules, phase)
        model_lower == StrLower(model)
    IN  IF allowed = {} THEN FALSE
        ELSE \E allowed_model \in allowed :
                LET allowed_lower == StrLower(allowed_model)
                IN  \/ model_lower = allowed_lower
                    \/ StartsWith(model_lower, allowed_lower \o <<"-">>)
                    \/ StartsWith(model_lower, allowed_lower \o <<"/">>)

CallVerifyPolicy ==
    /\ vpOut = "none"
    /\ vpOut' = IF verify_policy(vpPolicy, vpPhase, vpModel) THEN "True"
                ELSE "False"
    /\ UNCHANGED <<vpPolicy, vpPhase, vpModel, specVars, jsonVars, sigVars,
                   depVars, scanVars, writeVars, exitVars, policyVars,
                   callVars>>

InitAdapterPolicy ==
    /\ vpPolicy \in ModelRules
    /\ vpPhase \in Phases
    /\ vpModel \in ModelNames
    /\ vpOut = "none"
    /\ NoSpecFile
    /\ JsonIdle
    /\ SigIdle
    /\ DepsIdle
    /\ ScanIdle
    /\ WriteIdle
    /\ ExitIdle
    /\ PolicyIdle
    /\ CallIdle

NextAdapterPolicy == CallVerifyPolicy

SpecAdapterPolicy == InitAdapterPolicy /\ [][NextAdapterPolicy]_vars

\* ------------------------------------------------------------------------
\* ModelAdapter.call_model
\* ------------------------------------------------------------------------
Providers == {"openai", "google", "anthropic"}

\* The prefixes call_model routes by, with the provider of each.
PrefixesOf(provider) ==
    IF provider = "openai"
    THEN {<<"g", "p", "t", "-">>, <<"o", "1", "-">>, <<"o", "3", "-">>}
    ELSE IF provider = "google"
    THEN {<<"g", "e", "m", "i", "n", "i", "-">>}
    ELSE {<<"c", "l", "a", "u", "d", "e", "-">>}

CalledModels ==
    {<<"g", "p", "t", "-", "4">>, <<"o", "1", "-", "m">>,
     <<"G", "P", "T", "-", "4">>, <<"g", "p", "t">>,
     <<"g", "e", "m", "i", "n", "i", "-", "p">>,
     <<"c", "l", "a", "u", "d", "e", "-", "3">>,
     <<"u", "n", "k", "n", "o", "w", "n">>}

\* The provider call_model routes the name to, "mock" for a name with
\* none of the prefixes.
RouteOf(model) ==
    IF \E p \in PrefixesOf("openai") : StartsWith(model, p) THEN "openai"
    ELSE IF \E p \in PrefixesOf("google") : StartsWith(model, p) THEN "google"
    ELSE IF \E p \in PrefixesOf("anthropic") : StartsWith(model, p)
    THEN "anthropic"
    ELSE "mock"

Ended(how, provider, message) ==
    [how |-> how, provider |-> provider, message |-> message]

\* _call_openai, _call_google, _call_anthropic: the ways the call to the
\* provider can end.
ProviderCall(provider, sdks, keys) ==
    IF provider \notin sdks
    THEN {Ended("AIProviderError", provider, "SDK not installed")}
    ELSE IF provider \notin keys
    THEN {Ended("AIProviderError", provider, "API key not set")}
    ELSE {Ended("response", provider, ""),
          Ended("AIProviderError", provider, "API error")}

\* call_model: the ways it can end.
call_model(model, sdks, keys) ==
    IF RouteOf(model) = "mock" THEN {Ended("response", "mock", "")}
    ELSE ProviderCall(RouteOf(model), sdks, keys)

CallModel ==
    /\ cmOut.how = "none"
    /\ cmOut' \in call_model(cmModel, cmSdks, cmKeys)
    /\ UNCHANGED <<cmSdks, cmKeys, cmModel, specVars, jsonVars, sigVars,
                   depVars, scanVars, writeVars, exitVars, policyVars,
                   adapterPolicyVars>>

InitCall ==
    /\ cmSdks \in SUBSET Providers
    /\ cmKeys \in SUBSET Providers
    /\ cmModel \in CalledModels
    /\ cmOut = [how |-> "none", provider |-> "", message |-> ""]
    /\ NoSpecFile
    /\ JsonIdle
    /\ SigIdle
    /\ DepsIdle
    /\ ScanIdle
    /\ WriteIdle
    /\ ExitIdle
    /\ PolicyIdle
    /\ AdapterPolicyIdle

NextCall == CallModel

SpecCall == InitCall /\ [][NextCall]_vars

\* ------------------------------------------------------------------------
\* Spec documents written with an indentation
\* ------------------------------------------------------------------------
Spaces(n) == [i \in 1..n |-> " "]

\* A document whose first line is ---, followed by the front-matter
\* lines, the closing --- and the lines of the body, each of them behind
\* n spaces.
IndentedDoc(ls, n, bodyLines) ==
    <<"-", "-", "-", LF>>
        \o Concat([i \in 1..Len(ls) |-> Spaces(n) \o ls[i] \o <<LF>>])
        \o Spaces(n) \o <<"-", "-", "-", LF>>
        \o Concat([i \in 1..Len(bodyLines) |->
                     Spaces(n) \o bodyLines[i] \o <<LF>>])

\* The lines of a body: blank, a heading, a heading with trailing blanks.
BodyLines == {<< >>, <<"a">>, <<"a", " ", " ">>}

InitIndented ==
    /\ specExists = TRUE
    /\ docFront \in {Some(ls) : ls \in SeqsUpTo(FrontLines, MaxFrontLines)}
    /\ \E n \in 0..MaxIndent :
       \E bodyLines \in SeqsUpTo(BodyLines, MaxBodyPieces) :
          /\ docBody = Concat([i \in 1..Len(bodyLines) |->
                                 Spaces(n) \o bodyLines[i] \o <<LF>>])
          /\ specText = IndentedDoc(docFront[1], n, bodyLines)
    /\ SpecIdle
    /\ JsonIdle
    /\ SigIdle
    /\ DepsIdle
    /\ ScanIdle
    /\ WriteIdle
    /\ ExitIdle
    /\ PolicyIdle
    /\ AdapterPolicyIdle
    /\ CallIdle

NextIndented == CmdHash

SpecIndented == InitIndented /\ [][NextIndented]_vars

\* ------------------------------------------------------------------------
\* Scans of a test file that changes, second after second
\* ------------------------------------------------------------------------
\* The test file as it is between two scans: unparseable, or one node.
EditedSources == {s \in ScanSources : Len(s.nodes) <= 1}

\* The author rewrites the test file.
EditTestFile ==
    /\ scanSource' \in EditedSources \ {scanSource}
    /\ UNCHANGED <<scanPolicy, incFiles, scanCmd, specVars, jsonVars,
                   sigVars, depVars, writeVars, exitVars, policyVars,
                   adapterPolicyVars, callVars>>

InitIncidents ==
    /\ scanPolicy \in ScanPolicies
    /\ scanSource \in EditedSources
    /\ incFiles = [n \in {} |-> None]
    /\ scanCmd = [out |-> "none", message |-> "", warned |-> FALSE]
    /\ NoSpecFile
    /\ JsonIdle
    /\ SigIdle
    /\ DepsIdle
    /\ WriteIdle
    /\ ExitIdle
    /\ PolicyIdle
    /\ AdapterPolicyIdle
    /\ CallIdle

NextIncidents ==
    \/ CmdScanTests
    \/ EditTestFile
    \/ Tick

SpecIncidents == InitIncidents /\ [][NextIncidents]_vars

\* C4: canonicalizeSpec is idempotent: canonicalize_spec of the decoded
\* output of canonicalize_spec(t) is the same bytes as canonicalize_spec(t),
\* for every text t.
CanonSpecIdempotent == canonTwice # None => canonTwice = canonOut

\* C6: the canonical bytes do not depend on the front-matter block: the same
\* body under two blocks (each opened and closed by a --- line, neither
\* holding a --- line) canonicalizes to the same bytes.
FrontMatterIndependent ==
    (prevCanon # None /\ canonOut # None) => canonOut = prevCanon

\* C7: verifySpec passes if and only if the front matter declares a
\* spec_hash that is present, is not the literal pending, and equals the hex
\* SHA-256 of canonicalizeSpec of the full file text.
VerifyPassIffDeclaredMatches ==
    verifyOut # "none" =>
        (verifyOut = "pass" <=>
            /\ specExists
            /\ declared # None
            /\ declared[1] \notin {NoneVal, EmptyStr, PendingStr}
            /\ declared[1] = Sha256Hex(canonicalize_spec(specText)))

VerifyPassReached ==
    /\ verifyOut = "pass"
    /\ docFront = Some(<<(<<"H">>)>>)
    /\ declared = Some(DigestOfA)

\* The lines of a block hold at least one key, so that the block is what the
\* pattern takes as front matter.
HoldsKey(ls) == \E i \in 1..Len(ls) : ls[i] # << >>

RECURSIVE SortedDeep(_)
SortedDeep(v) ==
    v.t = "obj" =>
        /\ \A i \in 1..(Len(v.e) - 1) : KeyLess(v.e[i][1], v.e[i + 1][1])
        /\ \A i \in 1..Len(v.e) : SortedDeep(v.e[i][2])

\* Whether two entry lists hold the same entries.
SameEntries(es, fs) ==
    /\ Len(es) = Len(fs)
    /\ \A i \in 1..Len(es) : \E j \in 1..Len(fs) : es[i] = fs[j]

\* C5: canonicalizeStructured is invariant under key insertion order, and
\* its bytes are the compact serialization with keys sorted at every level:
\* {"b":2,"a":1,"c":{"e":3,"d":4}} gives {"a":1,"b":2,"c":{"d":4,"e":3}}.
CanonJsonOrderInvariant ==
    jsonOut # None =>
        /\ jsonOut = jsonFirst
        /\ SortedDeep(jsonData) => jsonOut[1] = JsonDumps(jsonData, FALSE)
        /\ jsonData = ExampleData
              => jsonOut[1] = "{\"a\":1,\"b\":2,\"c\":{\"d\":4,\"e\":3}}"
        /\ SameEntries(jsonData.e, << <<(<<"a", "b">>), JInt(1)>>,
                                      <<(<<"B">>), JInt(2)>>,
                                      <<(<<"a">>), JInt(2)>> >>)
              => jsonOut[1] = "{\"B\":2,\"a\":2,\"ab\":1}"

\* The example's content, canonicalized after its keys were reordered at
\* both levels.
ExampleReordered ==
    /\ jsonOut = Some("{\"a\":1,\"b\":2,\"c\":{\"d\":4,\"e\":3}}")
    /\ jsonData.e[1][1] = <<"c">>
    /\ jsonData.e[1][2].e[1][1] = <<"d">>
    /\ jsonFirst = jsonOut

\* ------------------------------------------------------------------------
\* Signatures
\* ------------------------------------------------------------------------
\* The last command was verify-sig, on a file that exists.
VerifiedExisting ==
    /\ sigCmd.cmd = "verify-sig"
    /\ Exists(files, sigCmd.name)

\* signature_meta.algo of the file the last command named, "" where the
\* file has none.
AlgoOfFile(fs, name) ==
    LET meta == DictGet(JsonLoads(fs[name][1]).v.e, SignatureMetaKey)
        algo == IF meta = None THEN None ELSE DictGet(meta[1].e, AlgoKey)
    IN  IF algo = None THEN "" ELSE algo[1].s[1]

\* C1 as stated: verify-sig never returns normally on an artifact whose
\* signature_meta.algo is NONE, in any environment and with any public-key
\* configuration.
SimulatedNeverPasses ==
    (VerifiedExisting /\ AlgoOfFile(files, sigCmd.name) = "NONE")
        => ~ReturnsNormally(sigCmd.out)

\* C1, amended: on an artifact whose signature_meta.algo is NONE, whether
\* or not its digest still matches the payload, verify-sig never returns
\* normally when a public key is resolvable or CI is true; with no public
\* key resolvable outside CI it returns normally without looking at the
\* artifact.
SimulatedRejectedUnlessSkipped ==
    (VerifiedExisting /\ AlgoOfFile(files, sigCmd.name) = "NONE")
        => IF (sigCmd.pub.set /\ sigCmd.pub.exists) \/ IsCI(sigCmd.ciVar)
           THEN ~ReturnsNormally(sigCmd.out) /\ ExitStatus(sigCmd.out) = 1
           ELSE sigCmd.out = "skipped" /\ ExitStatus(sigCmd.out) = 0

\* A simulated artifact whose fields were edited, so that its digest no
\* longer matches, is rejected for its algo under a resolvable public key.
SimulatedRejected ==
    /\ VerifiedExisting
    /\ AlgoOfFile(files, sigCmd.name) = "NONE"
    /\ files[sigCmd.name] # written[sigCmd.name]
    /\ sigCmd.pub.set /\ sigCmd.pub.exists /\ sigCmd.crypto
    /\ ~IsCI(sigCmd.ciVar)
    /\ sigCmd.out = "SimulatedRejected"

\* The key pair whose private key signed the file as make-artifact wrote
\* it, "" where the signature is simulated.
SignerOf(name) ==
    LET v == JsonLoads(written[name][1]).v
    IN  IF AlgoOfFile(written, name) = "RS256"
        THEN B64Decode(DictGet(v.e, SignatureKey)[1].s)[2]
        ELSE ""

\* The fields other than signature and signature_meta, as a mapping.
FieldsOf(fs, name) ==
    LET es == SignedFields(JsonLoads(fs[name][1]).v)
    IN  {es[i] : i \in 1..Len(es)}

\* C2: where the cryptography library is there, an artifact that
\* make-artifact signed with a private key passes verify-sig under the
\* public key of the same pair as long as its fields other than signature
\* and signature_meta are as written, and fails with an invalid signature
\* once the value of one of them is altered, or one is removed or added;
\* an altered artifact passes under no resolvable public key.
SignVerifyRoundTrip ==
    (VerifiedExisting /\ SignerOf(sigCmd.name) # "")
        => /\ (/\ sigCmd.crypto
               /\ sigCmd.pub.set /\ sigCmd.pub.exists
               /\ PairOfPublic(sigCmd.pub.bytes) = SignerOf(sigCmd.name))
              => IF FieldsOf(files, sigCmd.name) = FieldsOf(written, sigCmd.name)
                 THEN sigCmd.out = "pass"
                 ELSE sigCmd.out = "InvalidSignature"
           /\ (/\ FieldsOf(files, sigCmd.name) # FieldsOf(written, sigCmd.name)
               /\ sigCmd.pub.set /\ sigCmd.pub.exists)
              => ~ReturnsNormally(sigCmd.out)

\* A signed artifact with an altered field fails under the matching key.
TamperingDetected ==
    /\ VerifiedExisting
    /\ SignerOf(sigCmd.name) = "K1"
    /\ sigCmd.crypto /\ sigCmd.pub = KeyFile("pub-K1")
    /\ FieldsOf(files, sigCmd.name) # FieldsOf(written, sigCmd.name)
    /\ sigCmd.out = "InvalidSignature"

\* The signing key variable is unset, or its value neither names an
\* existing file nor starts with -----BEGIN.
NoKeyResolvable(key) == ~key.set \/ (~key.exists /\ ~key.begins)

\* C3: when CI is true and no signing key is resolvable or the
\* cryptography library is missing, a run of make-artifact that reaches
\* sign_payload ends in the fatal exit, with status 1, and writes nothing.
FatalInCIWithoutKeyOrCrypto ==
    [][(/\ sigCmd'.cmd = "make-artifact"
        /\ request.metadata # Some(BadMetadataText)
        /\ IsCI(sigCmd'.ciVar)
        /\ (NoKeyResolvable(sigCmd'.key) \/ ~sigCmd'.crypto))
       => /\ sigCmd'.out = "fatal"
          /\ ExitStatus(sigCmd'.out) = 1
          /\ files' = files]_vars

\* In CI, with a key file but no cryptography library, after an artifact
\* was written outside CI, the run ends in the fatal exit.
FatalExitReached ==
    /\ sigCmd.cmd = "make-artifact"
    /\ IsCI(sigCmd.ciVar) /\ ~sigCmd.crypto
    /\ sigCmd.key = KeyFile("priv-K1")
    /\ sigCmd.out = "fatal"
    /\ Exists(files, sigCmd.name)

\* ------------------------------------------------------------------------
\* Dependencies
\* ------------------------------------------------------------------------
\* check-deps has run on a file that parses.
CheckedParsed == depCmd.out # "none" /\ depSource.parses

\* Every import is a standard-library module or, in lower case, a key of
\* the allow-list in lower case.
OnlyStdlibOrAllowed ==
    \A imp \in Imports(depSource) :
       \/ imp \in StdlibNames
       \/ \E k \in depPolicy.allowed : StrLower(k) = StrLower(imp)

\* The lock file lists imp: by its lower-case name or by that name with
\* hyphens for underscores.
Listed(imp) ==
    \/ StrLower(imp) \in LockNames(depLock)
    \/ Dashed(StrLower(imp)) \in LockNames(depLock)

\* C9 as stated: a file whose imports are all standard-library or
\* allow-listed modules passes whatever the state of the lock file.
AllowedAlwaysPasses ==
    (CheckedParsed /\ OnlyStdlibOrAllowed) => depCmd.out = "pass"

\* C9, amended: a file that parses and whose imports are all
\* standard-library or allow-listed modules passes when the lock file is
\* absent, yields no package name, or lists every import that is neither
\* standard-library nor a local src/ name; when the lock file yields names
\* and does not list one of them, check-deps fails with a policy failure
\* whose report names that import as a lock-file violation and no policy
\* violation.
AllowedPassesUnlessUnlisted ==
    (CheckedParsed /\ OnlyStdlibOrAllowed)
        => LET unlisted == {imp \in ThirdParty(Imports(depSource), depLocal) :
                              ~Listed(imp)}
           IN  IF ~depLock.exists \/ LockNames(depLock) = {} \/ unlisted = {}
               THEN depCmd.out = "pass" /\ depFiles = << >>
               ELSE /\ depCmd.out = "PolicyViolation"
                    /\ Exists(depFiles, ReportName(TargetStem))
                    /\ depFiles[ReportName(TargetStem)][1].lock_file_violations
                          = unlisted
                    /\ depFiles[ReportName(TargetStem)][1].policy_violations
                          = {}

\* An allow-listed import that a lock file with names does not list fails.
AllowedButUnlistedFails ==
    /\ CheckedParsed /\ OnlyStdlibOrAllowed
    /\ Imports(depSource) = {ModOs, ModYaml}
    /\ depLock.exists /\ LockNames(depLock) = {PkgFlaskCors}
    /\ depCmd.out = "PolicyViolation"
    /\ Exists(depFiles, ReportName(TargetStem))

\* The imports that are neither standard-library nor local and are absent
\* from the allow-list and from the lock file.
Unknown ==
    {imp \in ThirdParty(Imports(depSource), depLocal) :
        /\ \A k \in depPolicy.allowed : StrLower(k) # StrLower(imp)
        /\ ~Listed(imp)}

\* C10: once check-deps has run on a file that imports a third-party
\* module absent from the allow-list and from the lock file, it has ended
\* in a policy failure with exit status 1 and <stem>.deps_violation.json
\* exists and names every such module among its policy violations.
UnknownImportReported ==
    (CheckedParsed /\ Unknown # {})
        => /\ depCmd.out = "PolicyViolation"
           /\ depCmd.message = "Dependency Check Failed"
           /\ ExitStatus(depCmd.out) = 1
           /\ Exists(depFiles, ReportName(TargetStem))
           /\ Unknown \subseteq
                 depFiles[ReportName(TargetStem)][1].policy_violations

\* A module that a lock file with other names does not list and the
\* allow-list does not hold is in the report.
UnknownImportInReport ==
    /\ CheckedParsed
    /\ Unknown = {ModFlaskCors}
    /\ depLock.exists /\ LockNames(depLock) = {ModYaml}
    /\ depCmd.out = "PolicyViolation"
    /\ Exists(depFiles, ReportName(TargetStem))
    /\ ModFlaskCors \in
          depFiles[ReportName(TargetStem)][1].lock_file_violations

\* ------------------------------------------------------------------------
\* The test scanner
\* ------------------------------------------------------------------------
\* The file has an import statement that names a banned module: import
\* with a dotted name that starts with it, or from ... import with a
\* module that starts with it, relative or not.
ImportsBanned ==
    \E i \in 1..Len(scanSource.nodes) :
       LET n == scanSource.nodes[i]
       IN  \/ /\ n.kind = "import"
              /\ \E k \in 1..Len(n.names) : n.names[k][1] \in scanPolicy.banned
           \/ /\ n.kind = "from" /\ n.module # None
              /\ n.module[1][1] \in scanPolicy.banned

ImportsRestricted ==
    \E i \in 1..Len(scanSource.nodes) :
       LET n == scanSource.nodes[i]
       IN  \/ /\ n.kind = "import"
              /\ \E k \in 1..Len(n.names) :
                    n.names[k][1] \in scanPolicy.restricted
           \/ /\ n.kind = "from" /\ n.module # None
              /\ n.module[1][1] \in scanPolicy.restricted

\* The file calls a banned name, as a plain name or as an attribute.
CallsBanned ==
    \E i \in 1..Len(scanSource.nodes) :
       LET n == scanSource.nodes[i]
       IN  /\ n.kind = "call" /\ n.func \in {"Name", "Attribute"}
           /\ n.callee \in scanPolicy.calls

\* C11: scan-tests ends in a policy failure with an incident file written
\* exactly when the file parses and imports a banned module or calls a
\* banned name (plain or attribute call); a file that parses, has nothing
\* banned and imports a restricted module passes with the warning and
\* writes no incident file.
BannedBlocksRestrictedWarns ==
    scanCmd.out # "none"
        => /\ (scanCmd.out = "PolicyViolation" /\ incFiles # << >>)
                <=> (scanSource.parses /\ (ImportsBanned \/ CallsBanned))
           /\ (scanSource.parses /\ (ImportsBanned \/ CallsBanned))
                => /\ Exists(incFiles, IncidentName(clock))
                   /\ ExitStatus(scanCmd.out) = 1
           /\ (scanSource.parses /\ ~ImportsBanned /\ ~CallsBanned)
                => /\ scanCmd.out = "pass"
                   /\ incFiles = << >>
                   /\ scanCmd.warned <=> ImportsRestricted

\* A file that imports a restricted module and calls system as an
\* attribute is blocked for the call.
AttributeCallBlocked ==
    /\ scanCmd.out = "PolicyViolation"
    /\ scanSource.nodes = <<ScanImport(<< <<ModOs>>, <<ModSocket>> >>),
                            ScanCall("Attribute", NameSystem)>>
    /\ Exists(incFiles, IncidentName(clock))
    /\ incFiles[IncidentName(clock)][1].violations
          = <<CallPrefix \o NameSystem>>

\* ------------------------------------------------------------------------
\* Atomic writes
\* ------------------------------------------------------------------------
\* C12: a reader of the path sees the path missing or holding its content
\* from before the writes, or the whole content of one invocation, never a
\* part of one; and once every invocation has ended the path holds the
\* content of the invocation that replaced it last (its old state where
\* none did).
NoPartialFileSeen ==
    /\ awRead.seen
         => \/ awRead.content = awOld
            \/ \E w \in DOMAIN awPc :
                  /\ awPc[w] = "done"
                  /\ awRead.content = Some(ContentOf(w))
    /\ (\A w \in DOMAIN awPc : awPc[w] \in {"done", "raised"})
         => IF awOrder = << >>
            THEN (IF awOld = None THEN ~Exists(awFs, PathName)
                  ELSE Exists(awFs, PathName) /\ awFs[PathName] = awOld)
            ELSE Exists(awFs, PathName)
                 /\ awFs[PathName] = Some(ContentOf(awOrder[Len(awOrder)]))

\* Both invocations replaced the path while the other was under way, and
\* a reader saw the content of the first after the second had written
\* part of its own.
ReadBetweenReplaces ==
    /\ awOrder = <<"w2", "w1">>
    /\ awPc = [w \in Writers |-> "done"]
    /\ awRead.seen /\ awRead.content = Some(ContentOf("w2"))
    /\ awFs[PathName] = Some(ContentOf("w1"))

\* C13: verify-sig on an existing artifact with no public key given, or
\* one naming a path that does not exist, ends in the fatal exit with
\* status 1 where CI is true, and otherwise returns with status 0 as
\* skipped, whatever the file holds and whether or not the cryptography
\* library is there.
NoPubkeyFatalInCIElseSkipped ==
    (VerifiedExisting /\ ~(sigCmd.pub.set /\ sigCmd.pub.exists))
        => IF Lower(sigCmd.ciVar) = "true"
           THEN sigCmd.out = "fatal" /\ ExitStatus(sigCmd.out) = 1
           ELSE sigCmd.out = "skipped" /\ ExitStatus(sigCmd.out) = 0

\* Outside CI an artifact edited after it was signed is verified against
\* a public key path that does not exist, without the cryptography
\* library, and the run returns.
EditedArtifactSkipped ==
    /\ VerifiedExisting
    /\ files # written
    /\ sigCmd.pub = MissingPath
    /\ ~sigCmd.crypto
    /\ sigCmd.out = "skipped"

\* The file the last command named lacks signature or signature_meta, or
\* holds an empty value for one of them.
LacksSignatureField ==
    LET data == ReadArtifact(files, sigCmd.name)
    IN  /\ data.ok
        /\ data.v.t = "obj"
        /\ \/ FalsyValue(DictGet(data.v.e, SignatureKey))
           \/ FalsyValue(DictGet(data.v.e, SignatureMetaKey))

\* C14 as stated: verify-sig ends with a non-zero status on every
\* artifact whose signature or signature_meta is absent or empty.
UnsignedAlwaysRejected ==
    (VerifiedExisting /\ LacksSignatureField)
        => ExitStatus(sigCmd.out) # 0

\* C14: verify-sig never reports a verified signature for an artifact
\* whose signature or signature_meta is absent or empty.  With a public
\* key file it ends with status 1, by a SignatureError where the
\* cryptography library is there; with no public key file it ends with
\* status 1 in CI and returns, the verification skipped, outside CI.
UnsignedRejectedUnlessSkipped ==
    (VerifiedExisting /\ LacksSignatureField)
        => /\ sigCmd.out # "pass"
           /\ (sigCmd.pub.set /\ sigCmd.pub.exists)
                => /\ ExitStatus(sigCmd.out) = 1
                   /\ sigCmd.crypto => sigCmd.out = "SignatureError"
           /\ ~(sigCmd.pub.set /\ sigCmd.pub.exists)
                => IF Lower(sigCmd.ciVar) = "true"
                   THEN ExitStatus(sigCmd.out) = 1
                   ELSE sigCmd.out = "skipped" /\ ExitStatus(sigCmd.out) = 0

\* An artifact signed with a private key has its signature emptied and
\* is verified under the public key of the pair.
EmptiedSignatureRejected ==
    /\ VerifiedExisting
    /\ SignerOf(sigCmd.name) # ""
    /\ DictGet(ReadArtifact(files, sigCmd.name).v.e, SignatureKey)
         = Some(JStr(<< >>))
    /\ sigCmd.crypto
    /\ PairOfPublic(sigCmd.pub.bytes) = SignerOf(sigCmd.name)
    /\ sigCmd.out = "SignatureError"

\* ------------------------------------------------------------------------
\* Exit statuses
\* ------------------------------------------------------------------------
\* C15 as stated: the failures of one category end with a status that no
\* failure of another category ends with, and that is not 0.
DistinctStatusPerCategory ==
    \A c1, c2 \in DOMAIN exitSeen :
       /\ 0 \notin exitSeen[c1]
       /\ c1 # c2 => exitSeen[c1] \cap exitSeen[c2] = {}

\* ------------------------------------------------------------------------
\* Policy loading
\* ------------------------------------------------------------------------
\* C16 as stated: whatever the policy document, load_policy returns a
\* dict and the import goes on; for an absent document and for one that
\* does not parse the dict is empty.
LoadPolicyYieldsMapping ==
    polLoad.out # "none"
        => /\ polLoad.policy.t = "dict"
           /\ polLoad.out = "imported"
           /\ (polDoc = None \/ ~SafeLoad(polDoc[1]).ok)
                => polLoad.policy = PyDict(<< >>)

\* ------------------------------------------------------------------------
\* The empty policy
\* ------------------------------------------------------------------------
\* C17: under a policy without dependency_rules, check-deps on a file
\* that imports a module that is neither a standard-library module nor a
\* name under src/ ends in a policy failure with exit status 1, whatever
\* the lock file lists; where the file parses, every such module is among
\* the policy violations of the report.
EmptyPolicyDeniesThirdParty ==
    (/\ depCmd.out # "none"
     /\ ~depPolicy.rules
     /\ ThirdParty(Imports(depSource), depLocal) # {})
        => /\ depCmd.out = "PolicyViolation"
           /\ ExitStatus(depCmd.out) = 1
           /\ depSource.parses
                => /\ Exists(depFiles, ReportName(TargetStem))
                   /\ depFiles[ReportName(TargetStem)][1].policy_violations
                        = ThirdParty(Imports(depSource), depLocal)

\* Without dependency_rules a file importing yaml fails although the lock
\* file lists yaml.
LockedImportDeniedWithoutRules ==
    /\ depCmd.out = "PolicyViolation"
    /\ ~depPolicy.rules
    /\ depSource.parses
    /\ ThirdParty(Imports(depSource), depLocal) = {ModYaml}
    /\ LockNames(depLock) = {ModYaml}
    /\ depFiles[ReportName(TargetStem)][1].lock_file_violations = {}

\* ------------------------------------------------------------------------
\* Artifact files over time
\* ------------------------------------------------------------------------
\* C18 as stated: an artifact file that exists stays, with the content
\* it has, through every later command, make-artifact with the same
\* feature and phase included.
ArtifactNeverMutated ==
    [][\A name \in DOMAIN files :
          /\ name \in DOMAIN files'
          /\ files'[name] = files[name]]_vars

\* ------------------------------------------------------------------------
\* The model policy of the adapter
\* ------------------------------------------------------------------------
\* The list of model_rules for the phase asked about, empty where the
\* phase has none.
EntriesOfPhase ==
    IF vpPolicy = None THEN << >>
    ELSE IF vpPhase \notin DOMAIN vpPolicy[1] THEN << >>
    ELSE vpPolicy[1][vpPhase]

\* Letter case aside, the model is entry a, or a followed by '-' or '/'
\* and anything.
MatchesEntry(a) ==
    /\ Len(vpModel) >= Len(a)
    /\ \A i \in 1..Len(a) : LowerChar(vpModel[i]) = LowerChar(a[i])
    /\ Len(vpModel) > Len(a) => vpModel[Len(a) + 1] \in {"-", "/"}

\* C19: verify_policy returns True exactly when the list of the phase
\* holds an entry the model matches; so it returns False for a phase
\* without a list and for a model matched only by the list of another
\* phase.
VerifyPolicyTrueIffEntryMatches ==
    vpOut # "none"
        => /\ vpOut = "True"
                <=> \E i \in 1..Len(EntriesOfPhase) :
                       MatchesEntry(EntriesOfPhase[i])
           /\ EntriesOfPhase = << >> => vpOut = "False"

\* GPT-4 is refused for the phase code, whose list holds gem, although
\* the list of the phase spec holds Gpt-4.
AllowedUnderOtherPhaseOnly ==
    /\ vpOut = "False"
    /\ vpPhase = "code"
    /\ vpModel = <<"G", "P", "T", "-", "4">>
    /\ vpPolicy # None
    /\ DOMAIN vpPolicy[1] = Phases
    /\ vpPolicy[1]["spec"] = << <<"G", "p", "t", "-", "4">> >>
    /\ vpPolicy[1]["code"] = << <<"g", "e", "m">> >>

\* ------------------------------------------------------------------------
\* Calls without a provider
\* ------------------------------------------------------------------------
\* C20 as stated: where every provider lacks its SDK or its API key,
\* call_model returns the mock response for every model name and raises
\* nothing.
MockWhenNoProviderConfigured ==
    (/\ cmOut.how # "none"
     /\ \A p \in Providers : p \notin cmSdks \/ p \notin cmKeys)
        => /\ cmOut.how = "response"
           /\ cmOut.provider = "mock"

\* ------------------------------------------------------------------------
\* Indented front matter
\* ------------------------------------------------------------------------
\* C21 as stated: of a document whose front-matter lines and closing ---
\* are indented, canonicalize_spec returns bytes without the spec_hash
\* line of the front matter and with the heading of the body.
IndentedFrontMatterRemoved ==
    (/\ canonOut # None
     /\ \E i \in 1..Len(docFront[1]) : docFront[1][i] \in {<<"P">>, <<"H">>}
     /\ \E i \in 1..Len(docBody) : docBody[i] = "a")
        => LET out == Utf8Decode(canonOut[1])
           IN  /\ \A i \in 1..Len(out) : out[i] \notin {"P", "H"}
               /\ \E i \in 1..Len(out) : out[i] = "a"

\* ------------------------------------------------------------------------
\* The simulated signature
\* ------------------------------------------------------------------------
\* make-artifact has run outside CI and has reached sign_payload.
SignedOutsideCI ==
    /\ sigCmd.cmd = "make-artifact"
    /\ request.metadata # Some(BadMetadataText)
    /\ Lower(sigCmd.ciVar) # "true"

\* The signing key variable leads to no key bytes: it is unset, or names
\* a path that does not exist, or a file that is empty.
NoKeyBytes(key) ==
    \/ ~key.set
    \/ ~key.begins /\ ~key.exists
    \/ key.bytes = ""

\* The signature the file of the last command holds.
SignatureOfFile ==
    DictGet(ReadArtifact(files, sigCmd.name).v.e, SignatureKey)[1].s

\* C22: outside CI, without the cryptography library or without key
\* bytes, sign_payload returns the marker SIMULATED_SIG_ followed by the
\* SHA-256 of the payload, with algo NONE; with the library and key bytes
\* that are no private key it raises SignatureError and nothing is
\* written; and algo is RS256 only with the RSA signature of the payload
\* under the private key.
SimulatedFallbackOutsideCI ==
    SignedOutsideCI
        => LET payload == VerifiedPayload(ReadArtifact(files, sigCmd.name))
           IN  /\ (~sigCmd.crypto \/ NoKeyBytes(sigCmd.key))
                    => /\ sigCmd.out = "simulated"
                       /\ SignatureOfFile
                            = <<"SIMULATED_SIG_", Sha256HexStr(payload)>>
                       /\ AlgoOfFile(files, sigCmd.name) = "NONE"
               /\ (/\ sigCmd.crypto
                   /\ ~NoKeyBytes(sigCmd.key)
                   /\ PairOfPrivate(sigCmd.key.bytes) = "")
                    => sigCmd.out = "SignatureError"
               /\ (/\ sigCmd.out \in {"signed", "simulated"}
                   /\ AlgoOfFile(files, sigCmd.name) = "RS256")
                    => /\ sigCmd.crypto
                       /\ PairOfPrivate(sigCmd.key.bytes) # ""
                       /\ SignatureOfFile
                            = B64Encode(RsaSign(
                                 PairOfPrivate(sigCmd.key.bytes), payload))

\* Outside CI, with the cryptography library, a key that is no private
\* key ends the run in a SignatureError after an earlier run had written
\* a simulated artifact without the library.
BadKeyRaisesAfterSimulated ==
    /\ SignedOutsideCI
    /\ sigCmd.crypto
    /\ sigCmd.key = InlineKey("garbage")
    /\ sigCmd.out = "SignatureError"
    /\ Exists(files, sigCmd.name)
    /\ AlgoOfFile(files, sigCmd.name) = "NONE"

\* ------------------------------------------------------------------------
\* Lock files without names
\* ------------------------------------------------------------------------
\* C23 as stated: once check-deps has run with a lock file in place,
\* whatever the file declares and whether or not it parses, every import
\* that is neither standard-library nor local and that the lock file does
\* not list is among the lock-file violations of the report.
UnlistedAlwaysLockViolation ==
    (CheckedParsed /\ depLock.exists)
        => \A imp \in ThirdParty(Imports(depSource), depLocal) :
              ~Listed(imp)
                 => /\ Exists(depFiles, ReportName(TargetStem))
                    /\ imp \in depFiles[ReportName(TargetStem)][1]
                                  .lock_file_violations

\* ------------------------------------------------------------------------
\* Failures of atomic_write
\* ------------------------------------------------------------------------
\* C24 as stated: an invocation of atomic_write that has raised has left
\* no temporary file of its own behind, and the path holds what it held
\* before or what an invocation that did not fail put there.
NoTempLeftOnFailure ==
    \A w \in DOMAIN awPc :
       awPc[w] = "raised"
          => /\ ~Exists(awFs, TempName(w))
             /\ IF Exists(awFs, PathName)
                THEN \/ awFs[PathName] = awOld
                     \/ \E d \in DOMAIN awPc :
                           /\ awPc[d] = "done"
                           /\ awFs[PathName] = Some(ContentOf(d))
                ELSE awOld = None

\* ------------------------------------------------------------------------
\* The artifact directory on a fatal configuration error
\* ------------------------------------------------------------------------
\* C25: a run of make-artifact in CI without a resolvable signing key or
\* without the cryptography library leaves the artifact directory as it
\* was: no file is created, none is replaced, none is removed.
FatalLeavesArtifactsUnchanged ==
    [][(/\ sigCmd'.cmd = "make-artifact"
        /\ Lower(sigCmd'.ciVar) = "true"
        /\ (NoKeyResolvable(sigCmd'.key) \/ ~sigCmd'.crypto))
       => /\ DOMAIN files' = DOMAIN files
          /\ \A name \in DOMAIN files : files'[name] = files[name]
          /\ sigCmd'.out \notin {"signed", "simulated"}]_vars

\* In CI, with the cryptography library and no signing key, the run ends
\* in the fatal exit and the artifact written earlier outside CI is as it
\* was written.
FatalKeepsEarlierArtifact ==
    /\ sigCmd.cmd = "make-artifact"
    /\ Lower(sigCmd.ciVar) = "true"
    /\ sigCmd.crypto
    /\ sigCmd.key = NoKey
    /\ sigCmd.out = "fatal"
    /\ Exists(files, sigCmd.name)
    /\ AlgoOfFile(files, sigCmd.name) = "RS256"

\* ------------------------------------------------------------------------
\* Simulated signatures in CI
\* ------------------------------------------------------------------------
\* C26 as stated: in CI no run of make-artifact gets a simulated
\* signature from sign_payload, whatever the signing key variable holds.
NoSimulatedSignatureInCI ==
    (sigCmd.cmd = "make-artifact" /\ Lower(sigCmd.ciVar) = "true")
        => sigCmd.out # "simulated"

\* ------------------------------------------------------------------------
\* Incident records over time
\* ------------------------------------------------------------------------
\* C27 as stated: an incident record that exists stays, with the content
\* it was written with, through every later scan, a scan within the same
\* second included.
IncidentsNeverOverwritten ==
    [][\A name \in DOMAIN incFiles :
          /\ name \in DOMAIN incFiles'
          /\ incFiles'[name] = incFiles[name]]_vars

====
